---- MODULE Spec2Model ----
(***************************************************************************)
(* Liftwin: the event store, the share codec and the boot / autosave /    *)
(* reconciliation logic of src/src/App.tsx (App component, lines 1-209,   *)
(* and the storage module, lines 210-285) and of the eventKey module      *)
(* (src/unnamed/part_001).                                                 *)
(*                                                                         *)
(* Text is a sequence of code points (natural numbers).  Everything kept  *)
(* in localStorage is text: JSON.stringify writes it and JSON.parse reads *)
(* it back, both modelled character by character.                          *)
(***************************************************************************)
EXTENDS Integers, Sequences, FiniteSets, TLC

\* ------------------------------------------------------------------------
\* JavaScript values.  A value is a record [t, v]: t names the type, v is
\* always a sequence: the code points of a string, <<n>> for a number,
\* <<0>>/<<1>> for false/true, the elements of an array, the <<key, value>>
\* members of an object in insertion order, <<>> for null and undefined.
\* ------------------------------------------------------------------------
JNull == [t |-> "null", v |-> <<>>]
JUndef == [t |-> "undef", v |-> <<>>]
JStr(s) == [t |-> "str", v |-> s]
JNum(n) == [t |-> "num", v |-> <<n>>]
JBool(b) == [t |-> "bool", v |-> <<IF b THEN 1 ELSE 0>>]
JArr(xs) == [t |-> "arr", v |-> xs]
JObj(ms) == [t |-> "obj", v |-> ms]

\* !x in JavaScript: null, undefined, false, 0 and "" are falsy.
Falsy(j) ==
  \/ j.t \in {"null", "undef"}
  \/ j.t = "bool" /\ j.v = <<0>>
  \/ j.t = "num" /\ j.v = <<0>>
  \/ j.t = "str" /\ j.v = <<>>

Truthy(j) == ~Falsy(j)

\* x.key (or x?.key): the value of the last member named key; undefined
\* when x is no object or has no such member.
RECURSIVE LookupFrom(_, _, _)
LookupFrom(ms, key, i) ==
  IF i = 0 THEN JUndef
  ELSE IF ms[i][1] = key THEN ms[i][2]
  ELSE LookupFrom(ms, key, i - 1)

Get(j, key) == IF j.t = "obj" THEN LookupFrom(j.v, key, Len(j.v)) ELSE JUndef

HasKey(j, key) == j.t = "obj" /\ \E i \in 1..Len(j.v) : j.v[i][1] = key

\* { ...x, key: val }: an own key keeps its place, a new key goes last.
\* Spreading a string or a number yields no members of interest here.
SetKey(j, key, val) ==
  LET ms == IF j.t = "obj" THEN j.v ELSE <<>>
  IN IF \E i \in 1..Len(ms) : ms[i][1] = key
     THEN JObj([i \in 1..Len(ms) |-> IF ms[i][1] = key THEN <<key, val>> ELSE ms[i]])
     ELSE JObj(Append(ms, <<key, val>>))

\* ------------------------------------------------------------------------
\* Helpers for walking long texts with a recursion of logarithmic depth:
\* the concatenation of ss[lo..hi], and the left fold of Step over lo..hi.
\* ------------------------------------------------------------------------
RECURSIVE FlattenRange(_, _, _)
FlattenRange(ss, lo, hi) ==
  IF lo > hi THEN <<>>
  ELSE IF lo = hi THEN ss[lo]
  ELSE LET mid == (lo + hi) \div 2
       IN FlattenRange(ss, lo, mid) \o FlattenRange(ss, mid + 1, hi)

Flatten(ss) == FlattenRange(ss, 1, Len(ss))

\* Then(x, y) is y, with x evaluated first: the fold of the left half is
\* computed before the right half starts.
Then(x, y) == IF x = x THEN y ELSE y

RECURSIVE FoldRange(_, _, _, _)
FoldRange(Step(_, _), st, lo, hi) ==
  IF lo > hi THEN st
  ELSE IF lo = hi THEN Step(st, lo)
  ELSE LET mid == (lo + hi) \div 2
           left == FoldRange(Step, st, lo, mid)
       IN Then(left, FoldRange(Step, left, mid + 1, hi))

\* ------------------------------------------------------------------------
\* JSON.stringify
\* ------------------------------------------------------------------------
RECURSIVE NatToDigits(_)
NatToDigits(n) ==
  IF n < 10 THEN <<48 + n>>
  ELSE Append(NatToDigits(n \div 10), 48 + (n % 10))

\* QuoteJSONString: " and \ are escaped with a backslash; every other code
\* point of the alphabets used here (none below U+0020, no lone surrogate)
\* is written as it is.
EscapeChar(c) == IF c = 34 \/ c = 92 THEN <<92, c>> ELSE <<c>>

Quote(s) == <<34>> \o Flatten([i \in 1..Len(s) |-> EscapeChar(s[i])]) \o <<34>>

RECURSIVE Stringify(_)
RECURSIVE StringifyMembers(_, _, _)
RECURSIVE StringifyElements(_, _)

\* Members whose value is undefined are left out of an object.
StringifyMembers(ms, i, first) ==
  IF i > Len(ms) THEN <<>>
  ELSE IF ms[i][2].t = "undef" THEN StringifyMembers(ms, i + 1, first)
  ELSE (IF first THEN <<>> ELSE <<44>>)
       \o Quote(ms[i][1]) \o <<58>> \o Stringify(ms[i][2])
       \o StringifyMembers(ms, i + 1, FALSE)

\* An undefined array element is written as null.
StringifyElements(xs, i) ==
  IF i > Len(xs) THEN <<>>
  ELSE (IF i = 1 THEN <<>> ELSE <<44>>)
       \o (IF xs[i].t = "undef" THEN <<110, 117, 108, 108>> ELSE Stringify(xs[i]))
       \o StringifyElements(xs, i + 1)

Stringify(j) ==
  CASE j.t = "null" -> <<110, 117, 108, 108>>
    [] j.t = "bool" -> IF j.v = <<1>> THEN <<116, 114, 117, 101>> ELSE <<102, 97, 108, 115, 101>>
    [] j.t = "num" -> NatToDigits(j.v[1])
    [] j.t = "str" -> Quote(j.v)
    [] j.t = "arr" -> <<91>> \o StringifyElements(j.v, 1) \o <<93>>
    [] j.t = "obj" -> <<123>> \o StringifyMembers(j.v, 1, TRUE) \o <<125>>

\* ------------------------------------------------------------------------
\* JSON.parse: a result is [ok, val, pos]; pos is the index after the value.
\* ok = FALSE stands for the SyntaxError JSON.parse throws.
\* ------------------------------------------------------------------------
ParseFail == [ok |-> FALSE, val |-> JUndef, pos |-> 0]
ParseOk(val, pos) == [ok |-> TRUE, val |-> val, pos |-> pos]

IsWs(c) == c \in {32, 9, 10, 13}
IsDigit(c) == c >= 48 /\ c <= 57

RECURSIVE SkipWs(_, _)
SkipWs(s, i) == IF i <= Len(s) /\ IsWs(s[i]) THEN SkipWs(s, i + 1) ELSE i

MatchAt(s, i, lit) ==
  /\ i + Len(lit) - 1 <= Len(s)
  /\ \A k \in 1..Len(lit) : s[i + k - 1] = lit[k]

\* i is the index after the opening quote.  Escapes \" \\ \/ are read;
\* a raw control character or any other escape ends the parse.
RECURSIVE ParseStringBody(_, _, _)
ParseStringBody(s, i, acc) ==
  IF i > Len(s) THEN ParseFail
  ELSE IF s[i] = 34 THEN ParseOk(JStr(acc), i + 1)
  ELSE IF s[i] = 92
       THEN IF i + 1 <= Len(s) /\ s[i + 1] \in {34, 92, 47}
            THEN ParseStringBody(s, i + 2, Append(acc, s[i + 1]))
            ELSE ParseFail
  ELSE IF s[i] < 32 THEN ParseFail
  ELSE ParseStringBody(s, i + 1, Append(acc, s[i]))

RECURSIVE ParseDigits(_, _, _)
ParseDigits(s, i, acc) ==
  IF i <= Len(s) /\ IsDigit(s[i])
  THEN ParseDigits(s, i + 1, acc * 10 + (s[i] - 48))
  ELSE ParseOk(JNum(acc), i)

\* A number: 0, or a digit 1-9 followed by digits (no sign, fraction or
\* exponent occurs in the texts of this model; a leading zero is an error).
ParseNumber(s, i) ==
  IF s[i] = 48
  THEN IF i + 1 <= Len(s) /\ IsDigit(s[i + 1]) THEN ParseFail ELSE ParseOk(JNum(0), i + 1)
  ELSE ParseDigits(s, i, 0)

RECURSIVE ParseValue(_, _)
RECURSIVE ParseElements(_, _, _)
RECURSIVE ParseMembers(_, _, _)

\* i is the index of the next element; acc holds the elements read so far.
ParseElements(s, i, acc) ==
  LET r == ParseValue(s, i)
  IN IF ~r.ok THEN ParseFail
     ELSE LET j == SkipWs(s, r.pos)
          IN IF j > Len(s) THEN ParseFail
             ELSE IF s[j] = 93 THEN ParseOk(JArr(Append(acc, r.val)), j + 1)
             ELSE IF s[j] = 44 THEN ParseElements(s, j + 1, Append(acc, r.val))
             ELSE ParseFail

\* A repeated key keeps its first place and takes the last value.
ParseMembers(s, i, acc) ==
  LET k == SkipWs(s, i)
  IN IF k > Len(s) \/ s[k] # 34 THEN ParseFail
     ELSE LET key == ParseStringBody(s, k + 1, <<>>)
          IN IF ~key.ok THEN ParseFail
             ELSE LET c == SkipWs(s, key.pos)
                  IN IF c > Len(s) \/ s[c] # 58 THEN ParseFail
                     ELSE LET r == ParseValue(s, c + 1)
                          IN IF ~r.ok THEN ParseFail
                             ELSE LET j == SkipWs(s, r.pos)
                                      acc2 == SetKey(JObj(acc), key.val.v, r.val).v
                                  IN IF j > Len(s) THEN ParseFail
                                     ELSE IF s[j] = 125 THEN ParseOk(JObj(acc2), j + 1)
                                     ELSE IF s[j] = 44 THEN ParseMembers(s, j + 1, acc2)
                                     ELSE ParseFail

ParseValue(s, i0) ==
  LET i == SkipWs(s, i0)
  IN IF i > Len(s) THEN ParseFail
     ELSE IF s[i] = 34 THEN ParseStringBody(s, i + 1, <<>>)
     ELSE IF IsDigit(s[i]) THEN ParseNumber(s, i)
     ELSE IF MatchAt(s, i, <<110, 117, 108, 108>>) THEN ParseOk(JNull, i + 4)
     ELSE IF MatchAt(s, i, <<116, 114, 117, 101>>) THEN ParseOk(JBool(TRUE), i + 4)
     ELSE IF MatchAt(s, i, <<102, 97, 108, 115, 101>>) THEN ParseOk(JBool(FALSE), i + 5)
     ELSE IF s[i] = 91
          THEN LET j == SkipWs(s, i + 1)
               IN IF j <= Len(s) /\ s[j] = 93 THEN ParseOk(JArr(<<>>), j + 1)
                  ELSE ParseElements(s, i + 1, <<>>)
     ELSE IF s[i] = 123
          THEN LET j == SkipWs(s, i + 1)
               IN IF j <= Len(s) /\ s[j] = 125 THEN ParseOk(JObj(<<>>), j + 1)
                  ELSE ParseMembers(s, i + 1, <<>>)
     ELSE ParseFail

\* JSON.parse(text): the whole text must be one value.
JSONparse(s) ==
  LET Whole(r) == IF r.ok /\ SkipWs(s, r.pos) = Len(s) + 1 THEN r ELSE ParseFail
  IN Whole(ParseValue(s, 1))

\* ------------------------------------------------------------------------
\* The share codec (eventKey module): TextEncoder, btoa, atob, TextDecoder.
\* A result that may throw is [ok, v]: ok = FALSE stands for the exception.
\* ------------------------------------------------------------------------
Threw == [ok |-> FALSE, v |-> <<>>]
Returned(v) == [ok |-> TRUE, v |-> v]

\* An encoder that keeps the low byte of every code point.
EncodeCodePointLowByte(c) == <<c % 256>>

\* new TextEncoder().encode(text): UTF-8, one to four bytes a code point.
EncodeCodePoint(c) ==
  IF c < 128 THEN <<c>>
  ELSE IF c < 2048 THEN <<192 + (c \div 64), 128 + (c % 64)>>
  ELSE IF c < 65536
       THEN <<224 + (c \div 4096), 128 + ((c \div 64) % 64), 128 + (c % 64)>>
  ELSE <<240 + (c \div 262144), 128 + ((c \div 4096) % 64),
         128 + ((c \div 64) % 64), 128 + (c % 64)>>

TextEncode(s) == Flatten([i \in 1..Len(s) |-> EncodeCodePoint(s[i])])

\* The base64 alphabet: A-Z, a-z, 0-9, + and /.
B64Char(n) ==
  IF n < 26 THEN 65 + n
  ELSE IF n < 52 THEN 97 + (n - 26)
  ELSE IF n < 62 THEN 48 + (n - 52)
  ELSE IF n = 62 THEN 43 ELSE 47

IsB64Char(c) ==
  \/ c >= 65 /\ c <= 90
  \/ c >= 97 /\ c <= 122
  \/ c >= 48 /\ c <= 57
  \/ c = 43
  \/ c = 47

B64Value(c) ==
  IF c >= 65 /\ c <= 90 THEN c - 65
  ELSE IF c >= 97 /\ c <= 122 THEN c - 97 + 26
  ELSE IF c >= 48 /\ c <= 57 THEN c - 48 + 52
  ELSE IF c = 43 THEN 62 ELSE 63

\* btoa(bin): three bytes make four characters; a rest of one or two bytes
\* is padded with =.  (Every character of bin is a byte here.)
EncodeGroup(b, i) ==
  LET n == Len(b) - i + 1
  IN IF n = 1
     THEN <<B64Char(b[i] \div 4), B64Char((b[i] % 4) * 16), 61, 61>>
     ELSE IF n = 2
          THEN <<B64Char(b[i] \div 4), B64Char((b[i] % 4) * 16 + (b[i + 1] \div 16)),
                 B64Char((b[i + 1] % 16) * 4), 61>>
     ELSE <<B64Char(b[i] \div 4), B64Char((b[i] % 4) * 16 + (b[i + 1] \div 16)),
            B64Char((b[i + 1] % 16) * 4 + (b[i + 2] \div 64)), B64Char(b[i + 2] % 64)>>

btoa(b) == Flatten([g \in 1..((Len(b) + 2) \div 3) |-> EncodeGroup(b, 3 * g - 2)])

\* makeEventKey(payload)
makeEventKey(payload) == btoa(TextEncode(Stringify(payload)))

\* String.prototype.trim: white space at both ends goes.
IsTrimWs(c) == c \in {9, 10, 11, 12, 13, 32, 160, 65279}

RECURSIVE TrimLeft(_)
TrimLeft(s) == IF s # <<>> /\ IsTrimWs(s[1]) THEN TrimLeft(Tail(s)) ELSE s

RECURSIVE TrimRight(_)
TrimRight(s) ==
  IF s # <<>> /\ IsTrimWs(s[Len(s)]) THEN TrimRight(SubSeq(s, 1, Len(s) - 1)) ELSE s

Trim(s) == TrimRight(TrimLeft(s))

\* atob(data), the forgiving base64 decode: ASCII white space is removed;
\* when the length is a multiple of four, one or two = at the end are
\* removed; a length of 1 modulo 4 or a character outside the alphabet
\* throws; the bits left over in the last group are dropped.
RemoveAsciiWs(s) == SelectSeq(s, LAMBDA c : c \notin {9, 10, 12, 13, 32})

StripPadding(s) ==
  IF Len(s) % 4 = 0 /\ Len(s) > 0 /\ s[Len(s)] = 61
  THEN IF Len(s) > 1 /\ s[Len(s) - 1] = 61
       THEN SubSeq(s, 1, Len(s) - 2)
       ELSE SubSeq(s, 1, Len(s) - 1)
  ELSE s

DecodeGroup(s, i) ==
  LET n == Len(s) - i + 1
      a == B64Value(s[i])
      b == B64Value(s[i + 1])
      c == B64Value(s[i + 2])
      d == B64Value(s[i + 3])
  IN IF n = 2 THEN <<a * 4 + (b \div 16)>>
     ELSE IF n = 3 THEN <<a * 4 + (b \div 16), (b % 16) * 16 + (c \div 4)>>
     ELSE <<a * 4 + (b \div 16), (b % 16) * 16 + (c \div 4), (c % 4) * 64 + d>>

DecodeGroups(s) == Flatten([g \in 1..((Len(s) + 3) \div 4) |-> DecodeGroup(s, 4 * g - 3)])

atob(data) ==
  LET Decoded(s) ==
        IF Len(s) % 4 = 1 THEN Threw
        ELSE IF \E i \in 1..Len(s) : ~IsB64Char(s[i]) THEN Threw
        ELSE Returned(DecodeGroups(s))
  IN Decoded(StripPadding(RemoveAsciiWs(data)))

\* new TextDecoder().decode(bytes): the UTF-8 decoder of the Encoding
\* standard, not fatal.  Its state: need, the number of continuation bytes
\* still expected; cp, the bits read; lo..hi, the range of the next byte;
\* out, the code points decoded.  A byte that cannot start or continue a
\* sequence yields U+FFFD (and is read again as a first byte when it broke
\* off a sequence); a sequence cut short by the end yields U+FFFD.
DecoderStart(out) == [need |-> 0, cp |-> 0, lo |-> 128, hi |-> 191, out |-> out]

FirstByte(out, x) ==
  IF x < 128 THEN DecoderStart(Append(out, x))
  ELSE IF x >= 194 /\ x <= 223
       THEN [need |-> 1, cp |-> x % 32, lo |-> 128, hi |-> 191, out |-> out]
  ELSE IF x >= 224 /\ x <= 239
       THEN [need |-> 2, cp |-> x % 16, lo |-> IF x = 224 THEN 160 ELSE 128,
             hi |-> IF x = 237 THEN 159 ELSE 191, out |-> out]
  ELSE IF x >= 240 /\ x <= 244
       THEN [need |-> 3, cp |-> x % 8, lo |-> IF x = 240 THEN 144 ELSE 128,
             hi |-> IF x = 244 THEN 143 ELSE 191, out |-> out]
  ELSE DecoderStart(Append(out, 65533))

DecodeByte(st, x) ==
  IF st.need = 0 THEN FirstByte(st.out, x)
  ELSE IF x < st.lo \/ x > st.hi THEN FirstByte(Append(st.out, 65533), x)
  ELSE IF st.need = 1 THEN DecoderStart(Append(st.out, st.cp * 64 + (x % 64)))
  ELSE [need |-> st.need - 1, cp |-> st.cp * 64 + (x % 64), lo |-> 128, hi |-> 191,
        out |-> st.out]

Utf8Decode(b) ==
  LET Flush(end) == IF end.need # 0 THEN Append(end.out, 65533) ELSE end.out
  IN Flush(FoldRange(LAMBDA st, i : DecodeByte(st, b[i]), DecoderStart(<<>>), 1, Len(b)))

\* A byte order mark at the start is dropped (ignoreBOM is false).
TextDecode(b) ==
  LET DropBOM(s) == IF s # <<>> /\ s[1] = 65279 THEN Tail(s) ELSE s
  IN DropBOM(Utf8Decode(b))

\* readEventKey(key): the parsed JSON value, or null when atob or
\* JSON.parse throws.
readEventKey(key) ==
  LET Parsed(r) == IF r.ok THEN r.val ELSE JNull
      Decoded(bin) == IF ~bin.ok THEN JNull ELSE Parsed(JSONparse(TextDecode(bin.v)))
  IN Decoded(atob(Trim(key)))

\* ------------------------------------------------------------------------
\* The link: location.hash, the match of /[#&]k=([^&]+)/,
\* decodeURIComponent and encodeURIComponent.
\* ------------------------------------------------------------------------
IsHex(c) == (c >= 48 /\ c <= 57) \/ (c >= 65 /\ c <= 70) \/ (c >= 97 /\ c <= 102)

HexValue(c) ==
  IF c <= 57 THEN c - 48 ELSE IF c <= 70 THEN c - 55 ELSE c - 87

HexDigit(n) == IF n < 10 THEN 48 + n ELSE 55 + n

\* The byte written %XY at index i of s, or -1 when s has no %XY there.
PercentByte(s, i) ==
  IF i + 2 <= Len(s) /\ s[i] = 37 /\ IsHex(s[i + 1]) /\ IsHex(s[i + 2])
  THEN HexValue(s[i + 1]) * 16 + HexValue(s[i + 2])
  ELSE -1

\* The number of bytes the lead byte b announces (0: b cannot lead).
SeqLength(b) ==
  IF b >= 192 /\ b <= 223 THEN 2
  ELSE IF b >= 224 /\ b <= 239 THEN 3
  ELSE IF b >= 240 /\ b <= 247 THEN 4
  ELSE 0

\* Whether the octets are the UTF-8 encoding of one code point: shortest
\* form, no surrogate, at most U+10FFFF.
ValidUtf8(o) ==
  LET lo == IF o[1] = 224 THEN 160 ELSE IF o[1] = 240 THEN 144 ELSE 128
      hi == IF o[1] = 237 THEN 159 ELSE IF o[1] = 244 THEN 143 ELSE 191
  IN /\ o[1] >= 194 /\ o[1] <= 244
     /\ o[2] >= lo /\ o[2] <= hi
     /\ \A k \in 3..Len(o) : o[k] >= 128 /\ o[k] <= 191

\* decodeURIComponent(text): %XY becomes a byte; bytes above 0x7F must
\* form, with the %XY that follow, the UTF-8 encoding of one code point.
\* Anything else after a % throws URIError.  The state is [ok, v, pos]:
\* the text decoded so far and the index of the next character to read.
DecodeURIStep(s, st, i) ==
  IF ~st.ok \/ st.pos # i THEN st
  ELSE IF s[i] # 37 THEN [ok |-> TRUE, v |-> Append(st.v, s[i]), pos |-> i + 1]
  ELSE LET Escape(b, n, o) ==
             IF b < 0 THEN [ok |-> FALSE, v |-> <<>>, pos |-> i]
             ELSE IF b < 128 THEN [ok |-> TRUE, v |-> Append(st.v, b), pos |-> i + 3]
             ELSE IF n = 0 \/ (\E k \in 1..n : o[k] < 0) \/ ~ValidUtf8(o)
                  THEN [ok |-> FALSE, v |-> <<>>, pos |-> i]
             ELSE [ok |-> TRUE, v |-> st.v \o TextDecode(o), pos |-> i + 3 * n]
           Octets(b, n) == Escape(b, n, [k \in 1..n |-> PercentByte(s, i + 3 * (k - 1))])
           Lead(b) == Octets(b, SeqLength(b))
       IN Lead(PercentByte(s, i))

decodeURIComponent(s) ==
  LET Result(end) == IF end.ok THEN Returned(end.v) ELSE Threw
  IN Result(FoldRange(LAMBDA st, i : DecodeURIStep(s, st, i),
                      [ok |-> TRUE, v |-> <<>>, pos |-> 1], 1, Len(s)))

\* encodeURIComponent(text) for ASCII text (a key is base64): letters,
\* digits and - _ . ! ~ * ' ( ) stay, every other character becomes %XY.
IsUnreserved(c) ==
  \/ c >= 65 /\ c <= 90
  \/ c >= 97 /\ c <= 122
  \/ c >= 48 /\ c <= 57
  \/ c \in {45, 95, 46, 33, 126, 42, 39, 40, 41}

EncodeURIChar(c) ==
  IF IsUnreserved(c) THEN <<c>> ELSE <<37, HexDigit(c \div 16), HexDigit(c % 16)>>

encodeURIComponent(s) == Flatten([i \in 1..Len(s) |-> EncodeURIChar(s[i])])

\* location.hash.match(/[#&]k=([^&]+)/): the capture of the leftmost
\* match, <<>> standing for no match (the capture is never empty).
\* The least element of a non-empty set of numbers.
Min(S) == CHOOSE x \in S : \A y \in S : x <= y

MatchesAt(h, i) ==
  /\ i + 3 <= Len(h)
  /\ h[i] \in {35, 38}
  /\ h[i + 1] = 107
  /\ h[i + 2] = 61
  /\ h[i + 3] # 38

MatchK(h) ==
  LET starts == {i \in 1..Len(h) : MatchesAt(h, i)}
  IN IF starts = {} THEN <<>>
     ELSE LET from == Min(starts) + 3
              stops == {j \in from..Len(h) : h[j] = 38} \cup {Len(h) + 1}
          IN SubSeq(h, from, Min(stops) - 1)

\* ------------------------------------------------------------------------
\* The data model (types module): the member names of State, Athlete,
\* EventMeta and of the share payload, as text.
\* ------------------------------------------------------------------------
K_eid == <<101, 105, 100>>
K_state == <<115, 116, 97, 116, 101>>
K_title == <<116, 105, 116, 108, 101>>
K_pointsPreset == <<112, 111, 105, 110, 116, 115, 80, 114, 101, 115, 101, 116>>
K_pointsCustom == <<112, 111, 105, 110, 116, 115, 67, 117, 115, 116, 111, 109>>
K_athletes == <<97, 116, 104, 108, 101, 116, 101, 115>>
K_createdAt == <<99, 114, 101, 97, 116, 101, 100, 65, 116>>
K_updatedAt == <<117, 112, 100, 97, 116, 101, 100, 65, 116>>
K_id == <<105, 100>>
K_name == <<110, 97, 109, 101>>
K_sex == <<115, 101, 120>>
K_age == <<97, 103, 101>>
K_bodyweight == <<98, 111, 100, 121, 119, 101, 105, 103, 104, 116>>
K_squat == <<115, 113, 117, 97, 116>>
K_bench == <<98, 101, 110, 99, 104>>
K_deadlift == <<100, 101, 97, 100, 108, 105, 102, 116>>
K_runTime == <<114, 117, 110, 84, 105, 109, 101>>

\* "Monthly Meet", the title createEvent and openEvent fall back to.
DefaultTitle == <<77, 111, 110, 116, 104, 108, 121, 32, 77, 101, 101, 116>>

\* { ...defaultState, title, athletes: [] }: the state of a new event.  The
\* two athletes of defaultState never reach an event: createEvent and
\* openEvent both replace the roster by [].
NewState(title) ==
  JObj(<< <<K_title, JStr(title)>>,
          <<K_pointsPreset, JStr(<<70, 49>>)>>,
          <<K_pointsCustom, JArr(<<JNum(10), JNum(7), JNum(5), JNum(3), JNum(2), JNum(1)>>)>>,
          <<K_athletes, JArr(<<>>)>> >>)

\* The athlete addAthlete appends.
NewAthlete(id) ==
  JObj(<< <<K_id, JStr(id)>>,
          <<K_name, JStr(<<78, 101, 119, 32, 65, 116, 104, 108, 101, 116, 101>>)>>,
          <<K_sex, JStr(<<77>>)>>,
          <<K_age, JNull>>,
          <<K_bodyweight, JNull>>,
          <<K_squat, JNull>>,
          <<K_bench, JNull>>,
          <<K_deadlift, JNull>>,
          <<K_runTime, JStr(<<>>)>> >>)

\* An EventMeta as createEvent, addOrForkEvent and the autosave build it.
Meta(eid, title, created, updated) ==
  JObj(<< <<K_eid, JStr(eid)>>, <<K_title, title>>,
          <<K_createdAt, JNum(created)>>, <<K_updatedAt, JNum(updated)>> >>)

\* ------------------------------------------------------------------------
\* Bounds of the model.
\* ------------------------------------------------------------------------
\* How many identifiers newEid() hands out on this device.
MaxMint == 2
\* The largest reading of Date.now().
MaxTime == 1
\* newEid(): crypto.randomUUID(), a fresh identifier.  The k-th identifier
\* minted on this device is the text "m<k>"; "f1" was minted elsewhere.
Eid(k) == <<109, 48 + k>>
ForeignEid == <<102, 49>>

\* The titles typed into the title field.
Titles == {DefaultTitle, <<66>>}

\* ------------------------------------------------------------------------
\* The links the page is loaded with.
\* ------------------------------------------------------------------------
Payload(eid, state) == JObj(<< <<K_eid, JStr(eid)>>, <<K_state, state>> >>)

\* copyShareLink: "#k=" followed by encodeURIComponent(makeEventKey(...)).
Link(payload) == <<35, 107, 61>> \o encodeURIComponent(makeEventKey(payload))

\* The first n characters of a text.
Take(s, n) == SubSeq(s, 1, n)

\* The values of location.hash the model boots with.
Hashes ==
  << <<>>,                                                   \* 1: no fragment
     <<35, 101, 118, 101, 110, 116, 61, 109, 49>>,           \* 2: "#event=m1", the legacy form
     Link(Payload(ForeignEid, NewState(DefaultTitle))),      \* 3
     Link(Payload(ForeignEid, NewState(<<66>>))),            \* 4
     Link(Payload(ForeignEid, JStr(<<120>>))),               \* 5: state is the string "x"
     <<35, 107, 61, 37>>,                                    \* 6: "#k=%"
     <<35, 107, 61, 37, 69, 48, 37, 65, 52, 37, 65>>,        \* 7: "#k=%E0%A4%A"
     <<35, 107, 61, 33, 33>>,                                \* 8: "#k=!!"
     <<35, 107, 61, 101, 119, 37, 51, 68, 37, 51, 68>>,      \* 9: "#k=ew%3D%3D", the key of "{"
     Take(Link(Payload(ForeignEid, NewState(DefaultTitle))), 40),       \* 10: cut short
     Link(JObj(<< <<K_eid, JStr(ForeignEid)>> >>)),          \* 11: no state
     <<35, 97, 61, 49, 38, 107, 61, 73, 81, 38, 98, 61, 50>>  \* 12: "#a=1&k=IQ&b=2"
  >>

\* importFromHash up to the call of addOrForkEvent: what the fragment
\* yields.  "nolink": no k parameter; "threw": decodeURIComponent throws
\* (it is called outside any try); "noresult": readEventKey returns null
\* or the payload has no truthy state; "payload": a payload to import.
importFromHash(h) ==
  LET Read(payload) ==
        IF Falsy(Get(payload, K_state)) THEN [kind |-> "noresult", payload |-> JNull]
        ELSE [kind |-> "payload", payload |-> payload]
      Decoded(d) ==
        IF ~d.ok THEN [kind |-> "threw", payload |-> JNull] ELSE Read(readEventKey(d.v))
      Matched(m) ==
        IF m = <<>> THEN [kind |-> "nolink", payload |-> JNull]
        ELSE Decoded(decodeURIComponent(m))
  IN Matched(MatchK(h))

\* What each fragment of Hashes yields (a constant table).
HashTable == [i \in 1..Len(Hashes) |-> importFromHash(Hashes[i])]


\* ------------------------------------------------------------------------
\* JSON.stringify and JSON.parse of event states.  The states that
\* createEvent, the title field and the links of Hashes produce are
\* converted once, in StateTexts and TextStates; StringifyState and
\* ParseStateText are Stringify and JSONparse, read from these tables where
\* they list the argument and computed otherwise.
\* ------------------------------------------------------------------------
KnownStates == {NewState(t) : t \in Titles} \cup {JStr(<<120>>)}

StateTexts == [s \in KnownStates |-> Stringify(s)]

TextStates == [t \in {StateTexts[s] : s \in KnownStates} |-> JSONparse(t)]

StringifyState(state) ==
  IF state \in KnownStates THEN StateTexts[state] ELSE Stringify(state)

ParseStateText(text) ==
  IF text \in DOMAIN TextStates THEN TextStates[text] ELSE JSONparse(text)

\* ------------------------------------------------------------------------
\* The storage module over localStorage.  lsEvent maps the identifiers
\* that have an item "liftwin:event:<eid>" to its text; lsIndex and
\* lsLastOpen are <<>> (no item) or <<text>>.
\* ------------------------------------------------------------------------
loadIndex(item) ==
  LET Parsed(r) == IF r.ok /\ r.val.t = "arr" THEN r.val.v ELSE <<>>
  IN IF item = <<>> \/ item[1] = <<>> THEN <<>> ELSE Parsed(JSONparse(item[1]))

saveIndex(list) == <<Stringify(JArr(list))>>

loadEvent(ev, eid) ==
  LET Parsed(r) == IF r.ok THEN r.val ELSE JNull
  IN IF eid \notin DOMAIN ev \/ ev[eid] = <<>> THEN JNull
     ELSE Parsed(ParseStateText(ev[eid]))

saveEvent(ev, eid, state) == (eid :> StringifyState(state)) @@ ev

\* The storage module's deleteEvent that leaves the item where it is.
rmEventKeeping(ev, eid) == ev

rmEvent(ev, eid) == [e \in (DOMAIN ev) \ {eid} |-> ev[e]]

\* setLastOpen(eid | null)
setLastOpen(eid) == IF eid = <<>> THEN <<>> ELSE <<eid>>

\* ------------------------------------------------------------------------
\* The state.
\* ------------------------------------------------------------------------
VARIABLES
  lsEvent,       \* localStorage: eid -> text of "liftwin:event:<eid>"
  lsIndex,       \* localStorage: <<>> or <<text of "liftwin:index">>
  lsLastOpen,    \* localStorage: <<>> or <<eid>> ("liftwin:lastOpen")
  mode,          \* "manager" | "event"; "crashed": React unmounted the app
  index,         \* the index state of App: a sequence of EventMeta
  currentEid,    \* <<>> (null) or <<eid>>
  currentState,  \* JNull or the State being edited
  timers,        \* the pending timeouts: [id, eid, state]
  saveTimer,     \* saveTimer.current: 0 (null) or a timeout id
  now,           \* the last reading of Date.now()
  minted,        \* how many identifiers newEid() has handed out
  op,            \* history: the operation that led to this state
  pendingEdit,   \* history: <<>> or <<[eid, state]>>, the latest edit of
                 \* this page load while no save has written it
  lastImport,    \* history: the latest link import, while neither an edit
                 \* nor a deletion followed it
  cPhase,        \* the codec run: "off" | "input" | "encoded" | "decoded"
  cPayload,      \* the codec run: the payload
  cKey,          \* the codec run: makeEventKey(cPayload)
  cOut,          \* the codec run: readEventKey(cKey)
  sOp,           \* the store run: the latest call of the storage module
  gState,        \* the scoring run: JNull or the State EventView is given
  gOut           \* the scoring run: JNull or what EventView computed

appVars == <<lsEvent, lsIndex, lsLastOpen, mode, index, currentEid, currentState,
             timers, saveTimer, now, minted, op, pendingEdit, lastImport>>
codecVars == <<cPhase, cPayload, cKey, cOut>>
storeVars == <<sOp>>
scoreVars == <<gState, gOut>>
runVars == <<codecVars, storeVars, scoreVars>>
vars == <<appVars, runVars>>

Op(name, kind) == [name |-> name, kind |-> kind]
NoImport == [h |-> 0, kind |-> "none", prev |-> "none"]

\* ------------------------------------------------------------------------
\* Rendering and the autosave effect.
\* ------------------------------------------------------------------------
\* Whether EventView renders the state without a TypeError: it calls
\* state.athletes.map and reads members of every athlete, and it reads
\* state.pointsCustom.length unless the preset is F1 or Simple.
Renders(state) ==
  /\ Get(state, K_athletes).t = "arr"
  /\ \A i \in 1..Len(Get(state, K_athletes).v) :
       Get(state, K_athletes).v[i].t \notin {"null", "undef"}
  /\ \/ Get(state, K_pointsPreset) \in {JStr(<<70, 49>>), JStr(<<83, 105, 109, 112, 108, 101>>)}
     \/ Get(state, K_pointsCustom).t \notin {"null", "undef"}

\* window.setTimeout returns an id no pending timeout has.
NextTimerId(tm) == Min({n \in 1..(Cardinality(tm) + 1) : \A t \in tm : t.id # n})

\* window.clearTimeout(id)
clearTimeout(tm, id) == {t \in tm : t.id # id}

\* The effect without its cleanup: a pending timeout is cleared only when
\* the effect sets a new one.
AutosaveEffectWithoutCleanup(tm, st, ceid, cstate) ==
  LET cleared == IF st # 0 THEN clearTimeout(tm, st) ELSE tm
      id == NextTimerId(cleared)
  IN IF ceid = <<>> \/ Falsy(cstate) THEN [timers |-> tm, saveTimer |-> st]
     ELSE [timers |-> cleared \cup {[id |-> id, eid |-> ceid[1], state |-> cstate]},
           saveTimer |-> id]

\* The effect on [currentEid, currentState], run after a render in which
\* one of the two changed: the cleanup of the previous run clears the
\* pending timeout; then, unless there is no current event, a new timeout
\* is set that closes over the rendered currentEid and currentState.
AutosaveEffect(tm, st, ceid, cstate) ==
  LET cleared == IF st # 0 THEN clearTimeout(tm, st) ELSE tm
      id == NextTimerId(cleared)
  IN IF ceid = <<>> \/ Falsy(cstate) THEN [timers |-> cleared, saveTimer |-> st]
     ELSE [timers |-> cleared \cup {[id |-> id, eid |-> ceid[1], state |-> cstate]},
           saveTimer |-> id]

\* The render that follows a handler.  tm and st are the timeouts and
\* saveTimer.current before it; changed says whether currentEid or
\* currentState changed.  An error thrown while rendering EventView is
\* caught by no error boundary: React unmounts the app, which runs the
\* cleanup of the effect.
Render(m, idx, ceid, cstate, tm, st, changed) ==
  IF m = "crashed" \/ (m = "event" /\ ceid # <<>> /\ Truthy(cstate) /\ ~Renders(cstate))
  THEN /\ mode' = "crashed"
       /\ index' = <<>>
       /\ currentEid' = <<>>
       /\ currentState' = JNull
       /\ timers' = {}
       /\ saveTimer' = 0
  ELSE /\ mode' = m
       /\ index' = idx
       /\ currentEid' = ceid
       /\ currentState' = cstate
       /\ LET e == IF changed THEN AutosaveEffect(tm, st, ceid, cstate)
                   ELSE [timers |-> tm, saveTimer |-> st]
          IN timers' = e.timers /\ saveTimer' = e.saveTimer

\* ------------------------------------------------------------------------
\* The handlers of App.
\* ------------------------------------------------------------------------
\* openEvent(eid), up to its state updates: the state it makes current.
openEventState(ev, eid) ==
  LET Loaded(st) == IF st.t = "null" THEN NewState(DefaultTitle) ELSE st
  IN Loaded(loadEvent(ev, eid))

\* addOrForkEvent with a conflict resolved by overwriting the stored
\* snapshot instead of forking.
addOrForkEventOverwriting(payload, idx, ev, t, m) ==
  LET incomingState == Get(payload, K_state)
      incomingEid == Get(payload, K_eid).v
  IN [kind |-> IF Falsy(loadEvent(ev, incomingEid)) THEN "adopt"
               ELSE IF StringifyState(loadEvent(ev, incomingEid)) = StringifyState(incomingState)
               THEN "same" ELSE "fork",
      eid |-> incomingEid,
      ev |-> saveEvent(ev, incomingEid, incomingState),
      next |-> <<Meta(incomingEid, Get(incomingState, K_title), t, t)>> \o idx,
      minted |-> m]

\* addOrForkEvent that never takes a stored snapshot for the incoming one.
addOrForkEventNeverSame(payload, idx, ev, t, m) ==
  LET incomingState == Get(payload, K_state)
      incomingEid == Get(payload, K_eid).v
      existing == loadEvent(ev, incomingEid)
      target == IF Falsy(existing) THEN incomingEid ELSE Eid(m + 1)
  IN [kind |-> IF Falsy(existing) THEN "adopt" ELSE "fork",
      eid |-> target,
      ev |-> saveEvent(ev, target, incomingState),
      next |-> <<Meta(target, Get(incomingState, K_title), t, t)>> \o idx,
      minted |-> IF Falsy(existing) THEN m ELSE m + 1]

\* addOrForkEvent(payload), called with idx as the index of its closure,
\* ev as the stored events, t as Date.now() and m identifiers minted so
\* far.  The result: the identifier imported under, the stored events,
\* the index it set and saved (next, when kind is not "same"), and the
\* number of identifiers minted.
addOrForkEvent(payload, idx, ev, t, m) ==
  LET incomingState == Get(payload, K_state)
      given == Get(payload, K_eid)
      noEid == given.t \in {"null", "undef"}
      incomingEid == IF noEid THEN Eid(m + 1) ELSE given.v
      m1 == IF noEid THEN m + 1 ELSE m
      forkEid == Eid(m1 + 1)
      Stored(target, m2) ==
        [eid |-> target,
         ev |-> saveEvent(ev, target, incomingState),
         next |-> <<Meta(target, Get(incomingState, K_title), t, t)>> \o idx,
         minted |-> m2]
      Resolve(existing) ==
        IF Falsy(existing)
        THEN [kind |-> "adopt"] @@ Stored(incomingEid, m1)
        ELSE IF StringifyState(existing) = StringifyState(incomingState)
             THEN [kind |-> "same", eid |-> incomingEid, ev |-> ev, next |-> idx,
                   minted |-> m1]
        ELSE [kind |-> "fork"] @@ Stored(forkEid, m1 + 1)
  IN Resolve(loadEvent(ev, incomingEid))

\* The index addOrForkEvent reads when the boot effect calls it: the
\* effect closes over the first render, whose index is useState([]).
BootClosureIndex == <<>>

\* The reading Date.now() gives: the time of the clock.
Clock == {now}

\* The first render of App: the initial values of its state.
AppFresh ==
  /\ mode = "manager"
  /\ index = <<>>
  /\ currentEid = <<>>
  /\ currentState = JNull
  /\ timers = {}
  /\ saveTimer = 0
  /\ now = 0
  /\ minted = 0
  /\ op = Op("init", "-")
  /\ pendingEdit = <<>>
  /\ lastImport = NoImport

\* The app loaded for the first time on this device: nothing is stored.
AppInit ==
  /\ lsEvent = <<>>
  /\ lsIndex = <<>>
  /\ lsLastOpen = <<>>
  /\ AppFresh

\* No run of the codec, of the storage module or of the scoring on their own.
CodecOff == cPhase = "off" /\ cPayload = JNull /\ cKey = <<>> /\ cOut = JNull
StoreOff == sOp = [name |-> "none"]
ScoreOff == gState = JNull /\ gOut = JNull

Init == AppInit /\ CodecOff /\ StoreOff /\ ScoreOff

\* The boot effect once the fragment is read: got is what importFromHash
\* came to before addOrForkEvent, list is loadIndex(), restored is the
\* state of the last-open event (null when none is set or none loads).
BootWith(h, got, list, restored) ==
  \E t \in Clock :
    /\ pendingEdit' = <<>>
    /\ IF got.kind = "threw"
       THEN \* decodeURIComponent throws in the effect: the app unmounts
            /\ Render("crashed", <<>>, <<>>, JNull, {}, 0, FALSE)
            /\ op' = Op("boot", "threw")
            /\ UNCHANGED <<lsEvent, lsIndex, lsLastOpen, now, minted, lastImport>>
       ELSE IF got.kind = "payload"
       THEN \E r \in {addOrForkEvent(got.payload, BootClosureIndex, lsEvent, t, minted)} :
               /\ r.minted <= MaxMint
               /\ lsEvent' = r.ev
               /\ lsIndex' = IF r.kind = "same" THEN lsIndex ELSE saveIndex(r.next)
               /\ lsLastOpen' = setLastOpen(r.eid)
               /\ minted' = r.minted
               /\ now' = IF r.kind = "same" THEN now ELSE t
               /\ Render("event", IF r.kind = "same" THEN list ELSE r.next,
                         <<r.eid>>, openEventState(r.ev, r.eid), {}, 0, TRUE)
               /\ op' = Op("boot", r.kind)
               /\ lastImport' = [h |-> h, kind |-> r.kind,
                                 prev |-> IF lastImport.h = h THEN lastImport.kind
                                          ELSE "none"]
       ELSE /\ IF Truthy(restored)
               THEN Render("event", list, lsLastOpen, restored, {}, 0, TRUE)
               ELSE Render("manager", list, <<>>, JNull, {}, 0, FALSE)
            /\ op' = Op("boot", got.kind)
            /\ UNCHANGED <<lsEvent, lsIndex, lsLastOpen, now, minted, lastImport>>
    /\ UNCHANGED runVars

\* The page is loaded with one of the fragments hs of Hashes as
\* location.hash: the first render and the boot effect.  Timeouts of the
\* previous page are gone.
BootFrom(hs) ==
  LET list == loadIndex(lsIndex)
      last == lsLastOpen
      restored == IF last # <<>> /\ last[1] # <<>> /\ Truthy(loadEvent(lsEvent, last[1]))
                  THEN openEventState(lsEvent, last[1])
                  ELSE JNull
  IN \E h \in hs : BootWith(h, HashTable[h], list, restored)

Boot == BootFrom(1..Len(Hashes))

\* createEvent(): "New event" in the manager (onNew passes no title).
CreateEvent ==
  /\ mode = "manager"
  /\ minted < MaxMint
  /\ \E t \in Clock :
       LET eid == Eid(minted + 1)
           state == NewState(DefaultTitle)
           ev == saveEvent(lsEvent, eid, state)
           next == <<Meta(eid, Get(state, K_title), t, t)>> \o index
       IN /\ lsEvent' = ev
          /\ lsIndex' = saveIndex(next)
          /\ lsLastOpen' = setLastOpen(eid)
          /\ minted' = minted + 1
          /\ now' = t
          /\ Render("event", next, <<eid>>, openEventState(ev, eid),
                    timers, saveTimer, TRUE)
  /\ op' = Op("create", "-")
  /\ UNCHANGED <<pendingEdit, lastImport, runVars>>

\* The identifiers the manager lists.
Listed == {Get(index[i], K_eid).v : i \in 1..Len(index)}

\* openEvent(eid): "Open" in the manager.
OpenEvent(eid) ==
  /\ mode = "manager"
  /\ eid \in Listed
  /\ lsLastOpen' = setLastOpen(eid)
  /\ Render("event", index, <<eid>>, openEventState(lsEvent, eid),
            timers, saveTimer, TRUE)
  /\ op' = Op("open", "-")
  /\ UNCHANGED <<lsEvent, lsIndex, now, minted, pendingEdit, lastImport, runVars>>

\* The identifiers deleteEvent can be called with.
AllEids == {Eid(k) : k \in 1..MaxMint} \cup {ForeignEid}

\* deleteEvent(eid) without its setLastOpen(null).
DeleteEventKeepingLastOpen(eid, confirmed) ==
  /\ mode = "manager"
  /\ IF eid \notin Listed \/ ~confirmed
     THEN UNCHANGED appVars
     ELSE LET next == SelectSeq(index, LAMBDA m : Get(m, K_eid) # JStr(eid))
              wasCurrent == currentEid = <<eid>>
          IN /\ lsEvent' = rmEvent(lsEvent, eid)
             /\ lsIndex' = saveIndex(next)
             /\ lsLastOpen' = lsLastOpen
             /\ IF wasCurrent
                THEN Render("manager", next, <<>>, JNull, timers, saveTimer, TRUE)
                ELSE Render("manager", next, currentEid, currentState,
                            timers, saveTimer, FALSE)
             /\ op' = Op("delete", IF wasCurrent THEN "current" ELSE "other")
             /\ pendingEdit' = IF pendingEdit # <<>> /\ pendingEdit[1].eid = eid
                               THEN <<>> ELSE pendingEdit
             /\ lastImport' = NoImport
             /\ UNCHANGED <<now, minted>>
  /\ UNCHANGED runVars

\* deleteEvent(eid): "Delete" in the manager, confirmed or declined.  It
\* returns at once when the index has no entry of eid.
DeleteEvent(eid, confirmed) ==
  /\ mode = "manager"
  /\ IF eid \notin Listed \/ ~confirmed
     THEN UNCHANGED appVars
     ELSE LET next == SelectSeq(index, LAMBDA m : Get(m, K_eid) # JStr(eid))
              wasCurrent == currentEid = <<eid>>
          IN /\ lsEvent' = rmEvent(lsEvent, eid)
             /\ lsIndex' = saveIndex(next)
             /\ lsLastOpen' = IF wasCurrent THEN setLastOpen(<<>>) ELSE lsLastOpen
             /\ IF wasCurrent
                THEN Render("manager", next, <<>>, JNull, timers, saveTimer, TRUE)
                ELSE Render("manager", next, currentEid, currentState,
                            timers, saveTimer, FALSE)
             /\ op' = Op("delete", IF wasCurrent THEN "current" ELSE "other")
             /\ pendingEdit' = IF pendingEdit # <<>> /\ pendingEdit[1].eid = eid
                               THEN <<>> ELSE pendingEdit
             /\ lastImport' = NoImport
             /\ UNCHANGED <<now, minted>>
  /\ UNCHANGED runVars

\* onBack: "Back to events" in the event view.
Back ==
  /\ mode = "event"
  /\ mode' = "manager"
  /\ op' = Op("back", "-")
  /\ UNCHANGED <<lsEvent, lsIndex, lsLastOpen, index, currentEid, currentState, timers,
                 saveTimer, now, minted, pendingEdit, lastImport, runVars>>

\* The title field of the event view: setState({ ...state, title }).
SetTitle(title) ==
  /\ mode = "event"
  /\ currentEid # <<>>
  /\ Truthy(currentState)
  /\ Get(currentState, K_title) # JStr(title)
  /\ LET state == SetKey(currentState, K_title, JStr(title))
     IN /\ Render("event", index, currentEid, state, timers, saveTimer, TRUE)
        /\ pendingEdit' = <<[eid |-> currentEid[1], state |-> state]>>
  /\ op' = Op("edit", "-")
  /\ lastImport' = NoImport
  /\ UNCHANGED <<lsEvent, lsIndex, lsLastOpen, now, minted, runVars>>

\* The index update of the autosave that stamps the entry with time 0.
autosaveIndexEpoch(list, eid, state, t) ==
  IF \E i \in 1..Len(list) : Get(list[i], K_eid) = JStr(eid)
  THEN LET i == Min({k \in 1..Len(list) : Get(list[k], K_eid) = JStr(eid)})
       IN [list EXCEPT ![i] = SetKey(SetKey(list[i], K_title, Get(state, K_title)),
                                     K_updatedAt, JNum(0))]
  ELSE Append(list, Meta(eid, Get(state, K_title), t, t))

\* The index update of the autosave that leaves the entry's title alone.
autosaveIndexKeepingTitle(list, eid, state, t) ==
  IF \E i \in 1..Len(list) : Get(list[i], K_eid) = JStr(eid)
  THEN LET i == Min({k \in 1..Len(list) : Get(list[k], K_eid) = JStr(eid)})
       IN [list EXCEPT ![i] = SetKey(list[i], K_updatedAt, JNum(t))]
  ELSE Append(list, Meta(eid, Get(state, K_title), t, t))

\* The index the autosave sets and saves: the entry of eid takes the
\* title and the time, or a new entry goes last.
autosaveIndex(list, eid, state, t) ==
  IF \E i \in 1..Len(list) : Get(list[i], K_eid) = JStr(eid)
  THEN LET i == Min({k \in 1..Len(list) : Get(list[k], K_eid) = JStr(eid)})
       IN [list EXCEPT ![i] = SetKey(SetKey(list[i], K_title, Get(state, K_title)),
                                     K_updatedAt, JNum(t))]
  ELSE Append(list, Meta(eid, Get(state, K_title), t, t))

\* A pending timeout fires: the callback saves the state it closed over
\* under the identifier it closed over, then updates and saves the index.
AutosaveFire(tm) ==
  /\ tm \in timers
  /\ \E t \in Clock :
       LET next == autosaveIndex(index, tm.eid, tm.state, t)
       IN /\ lsEvent' = saveEvent(lsEvent, tm.eid, tm.state)
          /\ index' = next
          /\ lsIndex' = saveIndex(next)
          /\ now' = t
  /\ timers' = timers \ {tm}
  /\ op' = Op("autosave", "-")
  /\ pendingEdit' = IF pendingEdit = <<[eid |-> tm.eid, state |-> tm.state]>>
                    THEN <<>> ELSE pendingEdit
  /\ UNCHANGED <<lsLastOpen, mode, currentEid, currentState, saveTimer, minted,
                 lastImport, runVars>>

\* The timeout of the autosave elapses.
Fire == \E tm \in timers : AutosaveFire(tm)

Next ==
  \/ Boot
  \/ CreateEvent
  \/ \E eid \in Listed : OpenEvent(eid)
  \/ \E eid \in AllEids, confirmed \in BOOLEAN : DeleteEvent(eid, confirmed)
  \/ Back
  \/ \E title \in Titles : SetTitle(title)
  \/ Fire

Spec == Init /\ [][Next]_vars

\* A pending timeout runs its callback once its delay has elapsed, unless
\* the page is reloaded or the timeout is cleared before.
\* A step in which a pending timeout runs its callback; under Next these
\* are the steps of Fire, and one is possible exactly when a timeout is
\* pending.
Elapse == \E tm \in timers : timers' = timers \ {tm} /\ op' = Op("autosave", "-")

SpecLive == Spec /\ WF_<<timers, op>>(Elapse)

\* Time passes: the clock Date.now() reads moves on (it never goes back).
\* Under Spec the whole run happens within one reading of the clock.  The
\* passing of time is no operation of the app: op keeps the latest one.
Tick ==
  /\ now < MaxTime
  /\ now' = now + 1
  /\ UNCHANGED <<lsEvent, lsIndex, lsLastOpen, mode, index, currentEid, currentState,
                 timers, saveTimer, minted, op, pendingEdit, lastImport, runVars>>

\* The fragments the page is loaded with while time passes: none, and the
\* two links that carry the same identifier with different titles.
TimedHashes == {1, 3, 4}

NextTimed ==
  \/ BootFrom(TimedHashes)
  \/ CreateEvent
  \/ \E eid \in Listed : OpenEvent(eid)
  \/ \E eid \in AllEids, confirmed \in BOOLEAN : DeleteEvent(eid, confirmed)
  \/ Back
  \/ \E title \in Titles : SetTitle(title)
  \/ Fire
  \/ Tick

SpecTimed == Init /\ [][NextTimed]_vars

\* ------------------------------------------------------------------------
\* The share codec on its own: a payload is encoded by makeEventKey and
\* the key is decoded by readEventKey.
\* ------------------------------------------------------------------------
\* The longest title or name of a payload.
MaxTextLen == 2

\* A, the two characters JSON escapes, and code points of two, three and
\* four UTF-8 bytes.
CodecAlphabet == {65, 34, 92, 233, 8364, 128512}

CodecTexts == UNION {[1..n -> CodecAlphabet] : n \in 0..MaxTextLen}

\* An athlete of the roster with a name and an age typed in.
NamedAthlete(name) ==
  SetKey(SetKey(NewAthlete(<<117, 49>>), K_name, JStr(name)), K_age, JNum(30))

CodecPayloads ==
  {Payload(ForeignEid, NewState(t)) : t \in CodecTexts}
  \cup {Payload(Eid(1), SetKey(NewState(DefaultTitle), K_athletes,
                               JArr(<<NamedAthlete(t)>>))) : t \in CodecTexts}

InitCodec ==
  /\ AppInit
  /\ cPhase = "input"
  /\ cPayload \in CodecPayloads
  /\ cKey = <<>>
  /\ cOut = JNull
  /\ StoreOff
  /\ ScoreOff

\* copyShareLink calls makeEventKey on the payload.
Encode ==
  /\ cPhase = "input"
  /\ cKey' = makeEventKey(cPayload)
  /\ cPhase' = "encoded"
  /\ UNCHANGED <<appVars, cPayload, cOut, storeVars, scoreVars>>

\* importFromHash calls readEventKey on the key.
Decode ==
  /\ cPhase = "encoded"
  /\ cOut' = readEventKey(cKey)
  /\ cPhase' = "decoded"
  /\ UNCHANGED <<appVars, cPayload, cKey, storeVars, scoreVars>>

NextCodec == Encode \/ Decode

SpecCodec == InitCodec /\ [][NextCodec]_vars

\* ------------------------------------------------------------------------
\* The storage module on its own: its functions are called on a store
\* that holds anything, and an access to localStorage may throw (the quota
\* is exceeded, the storage is denied).
\* ------------------------------------------------------------------------
\* try { body } catch { }: a body that threw raises nothing.
CatchNothing(body, fallback) == body

\* try { body } catch { return fallback }
Catch(body, fallback) == IF body.ok THEN body ELSE Returned(fallback)

\* localStorage.getItem: <<>> stands for null.
GetItem(item, fails) == IF fails THEN Threw ELSE Returned(item)

\* s ? JSON.parse(s) : empty, for the result of getItem.
ParseItem(got, empty) ==
  LET Parsed(r) == IF r.ok THEN Returned(r.val) ELSE Threw
  IN IF ~got.ok THEN Threw
     ELSE IF got.v = <<>> \/ got.v[1] = <<>> THEN Returned(empty)
     ELSE Parsed(JSONparse(got.v[1]))

\* loadIndex() and loadEvent(eid): the value returned, or Threw.
LoadIndexCall(item, fails) == Catch(ParseItem(GetItem(item, fails), JArr(<<>>)), JArr(<<>>))

LoadEventCall(ev, eid, fails) ==
  Catch(ParseItem(GetItem(IF eid \in DOMAIN ev THEN <<ev[eid]>> ELSE <<>>, fails), JNull),
        JNull)

\* saveIndex, saveEvent, deleteEvent and setLastOpen: the value stored
\* after the call (the one stored before when the write threw), or Threw.
SaveIndexCall(item, list, fails) ==
  Catch(IF fails THEN Threw ELSE Returned(saveIndex(list)), item)

SaveEventCall(ev, eid, state, fails) ==
  Catch(IF fails THEN Threw ELSE Returned(saveEvent(ev, eid, state)), ev)

DeleteEventCall(ev, eid, fails) ==
  Catch(IF fails THEN Threw ELSE Returned(rmEvent(ev, eid)), ev)

SetLastOpenCall(item, eid, fails) ==
  Catch(IF fails THEN Threw ELSE Returned(setLastOpen(eid)), item)

\* Texts a store can hold under a key: the empty text, texts that are not
\* JSON, JSON that is no list and no State, an index and a snapshot.
StoredTexts ==
  { <<>>, <<123>>, <<91, 49, 44>>, <<110, 117, 108, 108>>,
    Stringify(JArr(<<Meta(ForeignEid, JStr(DefaultTitle), 0, 0)>>)),
    Stringify(NewState(DefaultTitle)) }

\* The identifiers, lists and states the functions are called with.
StoreEids == {ForeignEid, Eid(1)}
StoreLists == {<<>>, <<Meta(Eid(1), JStr(<<66>>), 0, 0)>>}
StoreStates == {NewState(t) : t \in Titles}

InitStore ==
  /\ lsIndex \in {<<>>} \cup {<<t>> : t \in StoredTexts}
  /\ lsEvent \in {<<>>} \cup {ForeignEid :> t : t \in StoredTexts}
  /\ lsLastOpen \in {<<>>, <<ForeignEid>>}
  /\ AppFresh
  /\ CodecOff
  /\ StoreOff
  /\ ScoreOff

\* What a call leaves: its name, whether the access to localStorage
\* threw, whether the call raised, and the value it returned.
StoreOp(name, fails, r) ==
  [name |-> name, fails |-> fails, raised |-> ~r.ok, value |-> IF r.ok THEN r.v ELSE JUndef]

StoreUnchanged ==
  UNCHANGED <<mode, index, currentEid, currentState, timers, saveTimer, now, minted, op,
              pendingEdit, lastImport, codecVars, scoreVars>>

CallLoadIndex ==
  \E fails \in BOOLEAN :
    /\ sOp' = StoreOp("loadIndex", fails, LoadIndexCall(lsIndex, fails))
    /\ UNCHANGED <<lsEvent, lsIndex, lsLastOpen>>
    /\ StoreUnchanged

\* (The name left tells which of the two identifiers was loaded.)
CallLoadEvent ==
  \E eid \in StoreEids, fails \in BOOLEAN :
    /\ sOp' = [StoreOp("loadEvent", fails, LoadEventCall(lsEvent, eid, fails))
                 EXCEPT !.name = IF eid = ForeignEid THEN "loadEvent" ELSE "loadEventOther"]
    /\ UNCHANGED <<lsEvent, lsIndex, lsLastOpen>>
    /\ StoreUnchanged

CallSaveIndex ==
  \E list \in StoreLists, fails \in BOOLEAN :
    \E r \in {SaveIndexCall(lsIndex, list, fails)} :
      /\ sOp' = StoreOp("saveIndex", fails, r)
      /\ lsIndex' = IF r.ok THEN r.v ELSE lsIndex
      /\ UNCHANGED <<lsEvent, lsLastOpen>>
      /\ StoreUnchanged

CallSaveEvent ==
  \E eid \in StoreEids, state \in StoreStates, fails \in BOOLEAN :
    \E r \in {SaveEventCall(lsEvent, eid, state, fails)} :
      /\ sOp' = StoreOp("saveEvent", fails, r)
      /\ lsEvent' = IF r.ok THEN r.v ELSE lsEvent
      /\ UNCHANGED <<lsIndex, lsLastOpen>>
      /\ StoreUnchanged

CallDeleteEvent ==
  \E eid \in StoreEids, fails \in BOOLEAN :
    \E r \in {DeleteEventCall(lsEvent, eid, fails)} :
      /\ sOp' = StoreOp("deleteEvent", fails, r)
      /\ lsEvent' = IF r.ok THEN r.v ELSE lsEvent
      /\ UNCHANGED <<lsIndex, lsLastOpen>>
      /\ StoreUnchanged

CallSetLastOpen ==
  \E eid \in StoreEids \cup {<<>>}, fails \in BOOLEAN :
    \E r \in {SetLastOpenCall(lsLastOpen, eid, fails)} :
      /\ sOp' = StoreOp("setLastOpen", fails, r)
      /\ lsLastOpen' = IF r.ok THEN r.v ELSE lsLastOpen
      /\ UNCHANGED <<lsEvent, lsIndex>>
      /\ StoreUnchanged

NextStore ==
  \/ CallLoadIndex
  \/ CallLoadEvent
  \/ CallSaveIndex
  \/ CallSaveEvent
  \/ CallDeleteEvent
  \/ CallSetLastOpen

SpecStore == InitStore /\ [][NextStore]_vars

\* ------------------------------------------------------------------------
\* Scoring (src/src/EventView.tsx).  A number that may be absent is JNull
\* or JNum(n).  Scores are kept in hundredths and points as exact
\* fractions: the model computes with the real numbers the program's
\* floating-point numbers stand for.
\* ------------------------------------------------------------------------
\* The largest roster.
MaxRoster == 3

RECURSIVE Gcd(_, _)
Gcd(a, b) == IF b = 0 THEN a ELSE Gcd(b, a % b)

\* n / d for d > 0, in lowest terms.
Frac(n, d) ==
  LET Reduced(g) == [n |-> n \div g, d |-> d \div g]
  IN Reduced(Gcd(IF n < 0 THEN -n ELSE n, d))

FracAdd(p, q) == Frac(p.n * q.d + q.n * p.d, p.d * q.d)

\* p - q as a number whose sign is the sign of the difference.
FracSub(p, q) == p.n * q.d - q.n * p.d

F1_POINTS == <<25, 18, 15, 12, 10, 8, 6, 4, 2, 1>>
SIMPLE_POINTS == <<10, 7, 5, 3, 2, 1>>

\* A table read from its last entry backwards.
TableAtFromTheEnd(pointsTable, k) ==
  IF k < Len(pointsTable) THEN pointsTable[Len(pointsTable) - k] ELSE 0

\* pointsTable[k] ?? 0, k counted from 0.
TableAt(pointsTable, k) == IF k < Len(pointsTable) THEN pointsTable[k + 1] ELSE 0

\* The sum of pointsTable[k] ?? 0 for k in i..j-1.
RECURSIVE TableSum(_, _, _)
TableSum(pointsTable, i, j) ==
  IF i >= j THEN 0 ELSE TableAt(pointsTable, i) + TableSum(pointsTable, i + 1, j)

\* A tie that gives every entry the points of the first tied rank.
perHeadOfFirstRank(pointsTable, i, j) == Frac(TableAt(pointsTable, i), 1)

\* A perHead rounded down to a whole number of points.
perHeadRoundedDown(pointsTable, i, j) == Frac(TableSum(pointsTable, i, j) \div (j - i), 1)

\* perHead = sum / (j - i) for the entries at ranks i..j-1.
perHead(pointsTable, i, j) == Frac(TableSum(pointsTable, i, j), j - i)

\* The first index after i (from 0) whose score differs from the score at
\* i: the inner while loop of allocatePointsByRank.
RECURSIVE RunEnd(_, _, _)
RunEnd(sortedScores, i, j) ==
  IF j < Len(sortedScores) /\ sortedScores[j + 1].score = sortedScores[i + 1].score
  THEN RunEnd(sortedScores, i, j + 1)
  ELSE j

\* An assignment to the first entry of the range only.
AssignFirstOnly(result, sortedScores, i, j, val) ==
  [id \in DOMAIN result \cup {sortedScores[i + 1].id} |->
     IF sortedScores[i + 1].id = id THEN val ELSE result[id]]

\* result[sortedScores[k].id] = val for k in i..j-1, in that order.
AssignRange(result, sortedScores, i, j, val) ==
  [id \in DOMAIN result \cup {sortedScores[k + 1].id : k \in i..(j - 1)} |->
     IF \E k \in i..(j - 1) : sortedScores[k + 1].id = id THEN val ELSE result[id]]

\* The outer loop of allocatePointsByRank from index i (from 0).
RECURSIVE AllocateFrom(_, _, _, _)
AllocateFrom(sortedScores, pointsTable, i, result) ==
  IF i >= Len(sortedScores) THEN result
  ELSE IF sortedScores[i + 1].score = JNull
  THEN AssignRange(result, sortedScores, i, Len(sortedScores), Frac(0, 1))
  ELSE LET Group(j) ==
             AllocateFrom(sortedScores, pointsTable, j,
                          AssignRange(result, sortedScores, i, j, perHead(pointsTable, i, j)))
       IN Group(RunEnd(sortedScores, i, i + 1))

\* allocatePointsByRank: the points of every id, as a function of the ids.
allocatePointsByRank(sortedScores, pointsTable) ==
  AllocateFrom(sortedScores, pointsTable, 0, <<>>)

\* What uid() gives: texts of eight characters in base 36.  Two of them
\* consist of digits only.
UidPool == << <<107, 51, 102, 57, 97, 48, 122, 113>>,
              <<50, 48, 52, 56, 49, 51, 55, 57>>,
              <<49, 48, 50, 57, 51, 56, 52, 55>>,
              <<48, 97, 55, 99, 52, 109, 50, 120>> >>

Uids == {UidPool[k] : k \in 1..MaxRoster}

\* The scores of the allocator runs.
AllocScores == {JNull, JNum(500), JNum(1000)}

\* The points tables of the allocator runs: shorter than, as long as and
\* longer than the lists; with equal and with zero entries; and two custom
\* tables that are not non-increasing or not non-negative.
AllocTables == {<<>>, <<25>>, <<25, 18>>, <<25, 18, 15>>, <<5, 5, 0>>,
                F1_POINTS, SIMPLE_POINTS, <<1, 5>>, <<5, -5>>}

\* The score of a is listed no later than the score of b in a list sorted
\* descending with the unscored entries last.
NotBelow(a, b) == b = JNull \/ (a # JNull /\ a.v[1] >= b.v[1])

\* Lists of at most MaxRoster entries sorted descending by score, with
\* unique ids.
SortedScoreLists ==
  UNION {{[k \in 1..n |-> [id |-> UidPool[k], score |-> f[k]]] :
            f \in {g \in [1..n -> AllocScores] :
                     \A k \in 1..(n - 1) : NotBelow(g[k], g[k + 1])}} :
         n \in 0..MaxRoster}

InitAlloc ==
  /\ AppInit
  /\ CodecOff
  /\ StoreOff
  /\ gState \in {[sortedScores |-> l, pointsTable |-> t] :
                   l \in SortedScoreLists, t \in AllocTables}
  /\ gOut = JNull

\* A call of allocatePointsByRank.
Allocate ==
  /\ gOut = JNull
  /\ gOut' = [points |-> allocatePointsByRank(gState.sortedScores, gState.pointsTable)]
  /\ UNCHANGED <<appVars, codecVars, storeVars, gState>>

NextAlloc == Allocate

SpecAlloc == InitAlloc /\ [][NextAlloc]_vars

\* ------------------------------------------------------------------------
\* The scores and the leaderboard EventView computes from the State.  An
\* athlete is a record [id, sex, bodyweight, squat, bench, deadlift,
\* runTime]: id and runTime are texts, sex is "M", "F" or "X", the numbers
\* are JNull or JNum(n).  The name and the age play no part in scoring.
\* ------------------------------------------------------------------------
\* Number(p) for a text of decimal digits.
RECURSIVE DecimalOf(_)
DecimalOf(p) ==
  IF p = <<>> THEN 0 ELSE 10 * DecimalOf(SubSeq(p, 1, Len(p) - 1)) + (p[Len(p)] - 48)

\* The text is one or more decimal digits.
IsNumeric(p) == p # <<>> /\ \A i \in 1..Len(p) : IsDigit(p[i])

\* The text without a leading sign.
Unsigned(p) == IF p # <<>> /\ p[1] \in {43, 45} THEN Tail(p) ELSE p

\* isNaN(Number(p)) for a trimmed text that is not empty.  The texts of
\* the model hold digits, signs, colons, blanks and the letter x (never
\* after a 0): Number gives a number exactly for an optional sign followed
\* by digits.
NumberIsNaN(p) == ~IsNumeric(Unsigned(p))

\* Number(p) for such a text.
NumberOf(p) == IF p[1] = 45 THEN 0 - DecimalOf(Unsigned(p)) ELSE DecimalOf(Unsigned(p))

\* time.split(":")
RECURSIVE SplitColon(_)
SplitColon(time) ==
  IF \A i \in 1..Len(time) : time[i] # 58 THEN <<time>>
  ELSE LET Cut(i) == <<SubSeq(time, 1, i - 1)>> \o SplitColon(SubSeq(time, i + 1, Len(time)))
       IN Cut(Min({i \in 1..Len(time) : time[i] = 58}))

parseTimeToSeconds(time) ==
  IF time = <<>> THEN JNull
  ELSE LET Seconds(nums) ==
             IF Len(nums) = 1 THEN JNum(nums[1])
             ELSE IF Len(nums) = 2 THEN JNum(nums[1] * 60 + nums[2])
             ELSE IF Len(nums) = 3 THEN JNum(nums[1] * 3600 + nums[2] * 60 + nums[3])
             ELSE JNull
           Parsed(parts) ==
             IF \E i \in 1..Len(parts) : parts[i] = <<>> \/ NumberIsNaN(parts[i]) THEN JNull
             ELSE Seconds([i \in 1..Len(parts) |-> NumberOf(parts[i])])
           Trimmed(parts) == Parsed([i \in 1..Len(parts) |-> Trim(parts[i])])
       IN Trimmed(SplitColon(time))

\* An index that grows with the time and is given to every parsed time.
runPerformanceIndexOfSeconds(seconds) == seconds

\* 780 / seconds, in hundredths.
runPerformanceIndex(seconds) ==
  IF Falsy(seconds) \/ seconds.v[1] <= 0 THEN JNull
  ELSE JNum(78000 \div seconds.v[1])

\* The bodyweights of the model, in kg.
Bodyweights == {60, 80}

\* A + B x + C x^2 + D x^3 + E x^4 + F x^5 with the coefficients of
\* DOTS_COEFF[s], in tenths, at the bodyweights of the model: 601.90 and
\* 732.48 for M, 454.88 and 530.14 for F.
DotsDenom(s, x) ==
  IF s = "M" THEN (IF x = 60 THEN 6019 ELSE 7325)
  ELSE (IF x = 60 THEN 4549 ELSE 5301)

\* (600 / denom) * totalKg, in hundredths.
dotsPoints(totalKg, bodyweightKg, sex) ==
  IF Falsy(totalKg) \/ Falsy(bodyweightKg) \/ bodyweightKg.v[1] <= 0 THEN JNull
  ELSE IF sex \notin {"F", "M"} THEN JNull
  ELSE IF DotsDenom(sex, bodyweightKg.v[1]) = 0 THEN JNull
  ELSE JNum((600000 * totalKg.v[1]) \div DotsDenom(sex, bodyweightKg.v[1]))

\* x ?? 0 for a number that may be absent.
OrZero(x) == IF x = JNull THEN 0 ELSE x.v[1]

\* The points table in force.
pointsTable(state) ==
  IF state.pointsPreset = "F1" THEN F1_POINTS
  ELSE IF state.pointsPreset = "Simple" THEN SIMPLE_POINTS
  ELSE IF Len(state.pointsCustom) # 0 THEN state.pointsCustom
  ELSE SIMPLE_POINTS

\* One row of totals.
TotalsRow(a) ==
  [id |-> a.id, sex |-> a.sex, bodyweight |-> a.bodyweight,
   total |-> JNum(OrZero(a.squat) + OrZero(a.bench) + OrZero(a.deadlift)),
   runSeconds |-> parseTimeToSeconds(a.runTime)]

totals(state) == [k \in 1..Len(state.athletes) |-> TotalsRow(state.athletes[k])]

\* Array.prototype.sort with the comparator Cmp: a stable sort.
RECURSIVE ArraySort(_, _)
ArraySort(Cmp(_, _), rows) ==
  IF rows = <<>> THEN <<>>
  ELSE LET Insert(sorted, x) ==
             LET Place(p) == SubSeq(sorted, 1, p) \o <<x>> \o SubSeq(sorted, p + 1, Len(sorted))
             IN Place(Cardinality({i \in 1..Len(sorted) : Cmp(sorted[i], x) <= 0}))
       IN Insert(ArraySort(Cmp, SubSeq(rows, 1, Len(rows) - 1)), rows[Len(rows)])

\* A comparator that leaves the rows in the order of the roster.
ScoreCmpKeepsOrder(a, b) == 0

\* The comparator of the score rows: unscored rows last, then descending.
ScoreCmp(a, b) ==
  IF a.score = JNull /\ b.score = JNull THEN 0
  ELSE IF a.score = JNull THEN 1
  ELSE IF b.score = JNull THEN -1
  ELSE b.score.v[1] - a.score.v[1]

\* The rows and the points of a discipline.
Ranked(rows, table) ==
  LET Result(sorted) == [rows |-> sorted, points |-> allocatePointsByRank(sorted, table)]
  IN Result(ArraySort(ScoreCmp, rows))

plScores(state) ==
  LET Row(t) == [id |-> t.id, score |-> dotsPoints(t.total, t.bodyweight, t.sex)]
      Rows(ts) == [k \in 1..Len(ts) |-> Row(ts[k])]
  IN Ranked(Rows(totals(state)), pointsTable(state))

runScores(state) ==
  LET Row(t) == [id |-> t.id, score |-> runPerformanceIndex(t.runSeconds)]
      Rows(ts) == [k \in 1..Len(ts) |-> Row(ts[k])]
  IN Ranked(Rows(totals(state)), pointsTable(state))

\* The key is an array index: the canonical text of an integer below
\* 2^32 - 1.  The keys of the model have at most nine characters.
IsArrayIndex(key) ==
  /\ IsNumeric(key)
  /\ Len(key) = 1 \/ key[1] # 48
  /\ Len(key) <= 9

\* The keys in the order of their first insertion.
RECURSIVE InsertionKeys(_)
InsertionKeys(ids) ==
  IF ids = <<>> THEN <<>>
  ELSE LET Rest(keys) == IF \E i \in 1..Len(keys) : keys[i] = ids[Len(ids)]
                         THEN keys ELSE Append(keys, ids[Len(ids)])
       IN Rest(InsertionKeys(SubSeq(ids, 1, Len(ids) - 1)))

IndexCmp(a, b) == DecimalOf(a) - DecimalOf(b)

\* Object.entries / Object.keys of an object whose keys were inserted in
\* the order ids: the array indices ascending, then the other keys in
\* insertion order.
ObjectKeys(ids) ==
  LET Ordered(keys) == ArraySort(IndexCmp, SelectSeq(keys, IsArrayIndex))
                         \o SelectSeq(keys, LAMBDA k : ~IsArrayIndex(k))
  IN Ordered(InsertionKeys(ids))

\* The points a mapping holds for an id; 0 when it holds none.
PointsOf(points, id) == IF id \in DOMAIN points THEN points[id] ELSE Frac(0, 1)

TotalCmp(a, b) == FracSub(b.totalPoints, a.totalPoints)

\* A leaderboard whose total counts the strength points only.
leaderboardRowOfStrength(id, plPoints, runPoints) ==
  [id |-> id,
   totalPoints |-> PointsOf(plPoints, id),
   breakdown |-> [pl |-> PointsOf(plPoints, id), run |-> PointsOf(runPoints, id)]]

\* The row of an id once both mappings were added to the map.
leaderboardRow(id, plPoints, runPoints) ==
  [id |-> id,
   totalPoints |-> FracAdd(PointsOf(plPoints, id), PointsOf(runPoints, id)),
   breakdown |-> [pl |-> PointsOf(plPoints, id), run |-> PointsOf(runPoints, id)]]

leaderboard(state, plPoints, runPoints) ==
  LET Rows(keys) == [k \in 1..Len(keys) |-> leaderboardRow(keys[k], plPoints, runPoints)]
  IN ArraySort(TotalCmp,
               Rows(ObjectKeys([k \in 1..Len(state.athletes) |-> state.athletes[k].id])))

\* Everything a render of EventView computes.
EventView(state) ==
  LET Board(pl, run) == [pl |-> pl, run |-> run,
                         leaderboard |-> leaderboard(state, pl.points, run.points)]
  IN Board(plScores(state), runScores(state))

\* ------------------------------------------------------------------------
\* EventView as a state machine: gState is the State it is given, gOut
\* what its last render computed.  The handlers change the roster and the
\* component renders again.
\* ------------------------------------------------------------------------
\* The most athletes the roster of a scoring run has.
MaxEntrants == 2

\* An appended athlete whose id is always the same text.
AddedAthleteOfOneId(id) ==
  [id |-> UidPool[1], sex |-> "M", bodyweight |-> JNull, squat |-> JNull, bench |-> JNull,
   deadlift |-> JNull, runTime |-> <<>>]

\* The athlete addAthlete appends, as a record.
AddedAthlete(id) ==
  [id |-> id, sex |-> "M", bodyweight |-> JNull, squat |-> JNull, bench |-> JNull,
   deadlift |-> JNull, runTime |-> <<>>]

\* "20:00"
RunTimeText == <<50, 48, 58, 48, 48>>

\* The patches of updateAthlete: what the inputs of a table row give
\* (toNumber of the typed number, the typed run time).
Patches ==
  {[f |-> "bodyweight", v |-> JNum(80)], [f |-> "squat", v |-> JNum(100)],
   [f |-> "bench", v |-> JNum(60)], [f |-> "deadlift", v |-> JNum(140)],
   [f |-> "runTime", v |-> RunTimeText]}

\* pointsPreset and pointsCustom of the State: an event made here, and
\* imported events with a custom table shorter than the roster and with an
\* empty one.
ScorePresets ==
  {[pointsPreset |-> "F1", pointsCustom |-> SIMPLE_POINTS],
   [pointsPreset |-> "Custom", pointsCustom |-> <<10>>],
   [pointsPreset |-> "Custom", pointsCustom |-> <<>>]}

InitScore ==
  /\ AppInit
  /\ CodecOff
  /\ StoreOff
  /\ gState \in {[athletes |-> <<>>, pointsPreset |-> p.pointsPreset,
                  pointsCustom |-> p.pointsCustom] : p \in ScorePresets}
  /\ gOut = JNull

\* setState(s) followed by the render of the new State.
SetState(s) ==
  /\ gState' = s
  /\ gOut' = EventView(s)
  /\ UNCHANGED <<appVars, codecVars, storeVars>>

\* The first render.
Mount ==
  /\ gOut = JNull
  /\ SetState(gState)

\* The ids of the roster.
RosterIds(state) == {state.athletes[k].id : k \in 1..Len(state.athletes)}

addAthlete ==
  /\ gOut # JNull
  /\ Len(gState.athletes) < MaxEntrants
  /\ \E id \in Uids \ RosterIds(gState) :
       SetState([gState EXCEPT !.athletes = Append(@, AddedAthlete(id))])

updateAthlete(id, patch) ==
  /\ gOut # JNull
  /\ SetState([gState EXCEPT !.athletes =
                 [k \in 1..Len(@) |-> IF @[k].id = id
                                      THEN [@[k] EXCEPT ![patch.f] = patch.v]
                                      ELSE @[k]]])

removeAthlete(id) ==
  /\ gOut # JNull
  /\ SetState([gState EXCEPT !.athletes = SelectSeq(@, LAMBDA a : a.id # id)])

clearNumbers(confirmed) ==
  /\ gOut # JNull
  /\ IF ~confirmed THEN UNCHANGED vars
     ELSE SetState([gState EXCEPT !.athletes =
                      [k \in 1..Len(@) |-> [@[k] EXCEPT !.squat = JNull, !.bench = JNull,
                                                        !.deadlift = JNull, !.runTime = <<>>]]])

NextScore ==
  \/ Mount
  \/ addAthlete
  \/ \E id \in RosterIds(gState), patch \in Patches : updateAthlete(id, patch)
  \/ \E id \in RosterIds(gState) : removeAthlete(id)
  \/ \E confirmed \in BOOLEAN : clearNumbers(confirmed)

SpecScore == InitScore /\ [][NextScore]_vars

\* The run times typed in the 5k runs: "20:00", "13:00", "0", "-3" and
\* "1:xx"; the time of a new athlete is "".
RunTimes == {RunTimeText, <<49, 51, 58, 48, 48>>, <<48>>, <<45, 51>>, <<49, 58, 120, 120>>}

RunPatches == {[f |-> "runTime", v |-> t] : t \in RunTimes}

\* EventView with edits of the run times only.
NextRun ==
  \/ Mount
  \/ addAthlete
  \/ \E id \in RosterIds(gState), patch \in RunPatches : updateAthlete(id, patch)
  \/ \E id \in RosterIds(gState) : removeAthlete(id)
  \/ \E confirmed \in BOOLEAN : clearNumbers(confirmed)

SpecRun == InitScore /\ [][NextRun]_vars

\* ------------------------------------------------------------------------
\* dotsPoints on its own: gState holds the arguments of a call, gOut the
\* value returned.
\* ------------------------------------------------------------------------
\* The totals of the calls: absent, negative, zero and positive.
DotsTotals == {JNull, JNum(-100), JNum(0), JNum(100), JNum(300)}

\* The bodyweights of the calls: absent, negative, zero and positive.
DotsBodyweights == {JNull, JNum(-80), JNum(0)} \cup {JNum(x) : x \in Bodyweights}

Sexes == {"M", "F", "X"}

InitDots ==
  /\ AppInit
  /\ CodecOff
  /\ StoreOff
  /\ gState \in [totalKg : DotsTotals, bodyweightKg : DotsBodyweights, sex : Sexes]
  /\ gOut = JNull

\* A call of dotsPoints.
CallDotsPoints ==
  /\ gOut = JNull
  /\ gOut' = [score |-> dotsPoints(gState.totalKg, gState.bodyweightKg, gState.sex)]
  /\ UNCHANGED <<appVars, codecVars, storeVars, gState>>

NextDots == CallDotsPoints

SpecDots == InitDots /\ [][NextDots]_vars

\* ------------------------------------------------------------------------
\* parseTimeToSeconds on its own: gState holds the text of a call, gOut the
\* value returned.
\* ------------------------------------------------------------------------
\* The characters of the typed times: 1, 3, colon, x, blank and minus.
TimeAlphabet == {49, 51, 58, 120, 32, 45}

\* The longest typed time that is drawn from the alphabet.
MaxTimeLen == 3

\* "1:xx", "1:1:1:1" and "13:00"
LongTimes == {<<49, 58, 120, 120>>, <<49, 58, 49, 58, 49, 58, 49>>, <<49, 51, 58, 48, 48>>}

TimeTexts == UNION {[1..n -> TimeAlphabet] : n \in 0..MaxTimeLen} \cup LongTimes

InitTime ==
  /\ AppInit
  /\ CodecOff
  /\ StoreOff
  /\ gState \in {[time |-> t] : t \in TimeTexts}
  /\ gOut = JNull

\* A call of parseTimeToSeconds.
CallParseTime ==
  /\ gOut = JNull
  /\ gOut' = [seconds |-> parseTimeToSeconds(gState.time)]
  /\ UNCHANGED <<appVars, codecVars, storeVars, gState>>

NextTime == CallParseTime

SpecTime == InitTime /\ [][NextTime]_vars

\* ------------------------------------------------------------------------
\* Properties.
\* ------------------------------------------------------------------------
\* The outcomes of addOrForkEvent.
ImportKinds == {"adopt", "same", "fork"}

\* The step is a boot that imported the link Hashes[h].
ImportStep(h) == op'.name = "boot" /\ op'.kind \in ImportKinds /\ lastImport'.h = h

\* The identifier and the state the link Hashes[h] carries.
LinkEid(h) == Get(HashTable[h].payload, K_eid).v
LinkState(h) == Get(HashTable[h].payload, K_state)

\* The State interface: a title, a preset, a points table and a roster.
WellFormedState(s) ==
  /\ s.t = "obj"
  /\ Get(s, K_title).t = "str"
  /\ Get(s, K_pointsPreset).t = "str"
  /\ Get(s, K_pointsCustom).t = "arr"
  /\ Get(s, K_athletes).t = "arr"

\* C1, as stated: importing the same link a second time, with neither an
\* edit nor a deletion in between, leaves the number of stored events as
\* it was after the first import.
C1_ReimportAddsNoEvent ==
  [][(op'.name = "boot" /\ op'.kind \in ImportKinds /\ lastImport'.prev \in ImportKinds)
       => Cardinality(DOMAIN lsEvent') = Cardinality(DOMAIN lsEvent)]_vars

\* C1, amended: when the first import of a link adopted its payload or
\* found it stored already (it did not fork), importing the same link a
\* second time, with neither an edit nor a deletion in between, changes
\* neither the stored events nor the persisted index.
C1_ReimportAfterAdoptIsIdempotent ==
  [][(op'.name = "boot" /\ op'.kind \in ImportKinds
        /\ lastImport'.prev \in {"adopt", "same"})
       => (lsEvent' = lsEvent /\ lsIndex' = lsIndex /\ op'.kind = "same")]_vars

\* C1: a link was imported for the second time after an import that did
\* not fork.
C1_Witness ==
  /\ op.name = "boot"
  /\ op.kind \in ImportKinds
  /\ lastImport.prev \in {"adopt", "same"}
  /\ LinkEid(lastImport.h) \in DOMAIN lsEvent

\* C2: when a link {eid, state} is imported and the snapshot stored under
\* eid has a serialization other than that of state, the state is stored
\* under an identifier that was not stored and is not eid, and every
\* snapshot stored before, that of eid included, keeps its text.
C2_ForkOnConflict ==
  [][\A h \in 1..Len(Hashes) :
       (/\ ImportStep(h)
        /\ LinkEid(h) \in DOMAIN lsEvent
        /\ lsEvent[LinkEid(h)] # Stringify(LinkState(h)))
       => /\ \E n \in (DOMAIN lsEvent') \ (DOMAIN lsEvent) :
               /\ n # LinkEid(h)
               /\ lsEvent'[n] = Stringify(LinkState(h))
               /\ DOMAIN lsEvent' = (DOMAIN lsEvent) \cup {n}
          /\ \A e \in DOMAIN lsEvent : lsEvent'[e] = lsEvent[e]]_vars

\* C2: a boot has just imported a link whose identifier is stored with
\* another serialization than the link's state.
C2_Witness ==
  /\ op.name = "boot"
  /\ op.kind \in ImportKinds
  /\ LinkEid(lastImport.h) \in DOMAIN lsEvent
  /\ lsEvent[LinkEid(lastImport.h)] # Stringify(LinkState(lastImport.h))
  /\ Cardinality(DOMAIN lsEvent) >= 2

\* The number of entries the persisted index has for an identifier.
IndexEntries(eid) ==
  Cardinality({i \in 1..Len(loadIndex(lsIndex)) :
                 Get(loadIndex(lsIndex)[i], K_eid) = JStr(eid)})

\* C3: every identifier with a stored snapshot has exactly one entry in
\* the persisted index.
C3_OneIndexEntryPerStoredEvent ==
  \A e \in DOMAIN lsEvent : IndexEntries(e) = 1

\* C4: a link import at boot that adopts or forks keeps every entry of
\* the persisted index and adds at most one.
C4_ImportKeepsIndex ==
  [][(op'.name = "boot" /\ op'.kind \in {"adopt", "fork"})
       => LET old == loadIndex(lsIndex)
              new == loadIndex(lsIndex')
          IN /\ \A i \in 1..Len(old) : \E j \in 1..Len(new) : new[j] = old[i]
             /\ Len(new) <= Len(old) + 1]_vars

\* C5: when the autosave fires for the event whose latest edit is not
\* saved yet, the snapshot it writes is the state that edit produced.
C5_AutosaveWritesLatestEdit ==
  [][\A tm \in timers \ timers' :
       (op'.name = "autosave" /\ pendingEdit # <<>> /\ pendingEdit[1].eid = tm.eid)
       => (/\ tm.state = pendingEdit[1].state
           /\ lsEvent'[tm.eid] = Stringify(pendingEdit[1].state))]_vars

\* A timeout is pending for the write of the latest edit.
WritePending ==
  /\ pendingEdit # <<>>
  /\ \E tm \in timers : tm.eid = pendingEdit[1].eid /\ tm.state = pendingEdit[1].state

\* C6: the write a burst of edits has scheduled stays pending until it is
\* made; only a further edit of the burst reschedules it (a deletion of
\* the event or a reload of the page ends the burst), so that the burst
\* ends in one write.
C6_BurstEndsInOneWrite ==
  [][WritePending
       => (WritePending' \/ op'.name \in {"autosave", "edit", "delete", "boot"})]_vars

\* C7: an edit whose event is not deleted, on a page that is not
\* reloaded, is eventually written to the store.
C7_EditEventuallyPersisted ==
  (pendingEdit # <<>>) ~> (pendingEdit = <<>>)

\* Every stored snapshot is one the event view renders.
StoredRender == \A e \in DOMAIN lsEvent : Renders(loadEvent(lsEvent, e))

\* C8: a boot with a k parameter that cannot be decoded raises nothing:
\* the app is in the manager or in the last-open event.
C8_BadLinkBootsNormally ==
  (op.name = "boot" /\ op.kind \in {"threw", "noresult"} /\ StoredRender)
    => mode \in {"manager", "event"}

\* C9: a boot with a link that decodes to a payload whose state is not a
\* well-formed snapshot stores nothing, adds nothing to the index and
\* opens no event.
C9_MalformedStateIsNoResult ==
  [][\A h \in 1..Len(Hashes) :
       (ImportStep(h) /\ ~WellFormedState(LinkState(h)))
       => (lsEvent' = lsEvent /\ lsIndex' = lsIndex /\ lsLastOpen' = lsLastOpen)]_vars

\* The entries the index list has for an identifier, in their order.
EntriesOf(list, eid) == SelectSeq(list, LAMBDA m : Get(m, K_eid) = JStr(eid))

\* C11: a confirmed deleteEvent(eid) of an indexed event removes the
\* snapshot of eid and every index entry of eid (in the index state and in
\* the persisted index), keeps the snapshot and the index entries of every
\* other identifier, and, when eid was the current event, leaves no
\* current event and no last-open pointer; a declined deleteEvent and one
\* of an identifier the index does not list change nothing.
C11_DeleteRemovesOnlyThatEvent ==
  [][\A eid \in AllEids, confirmed \in BOOLEAN :
       DeleteEvent(eid, confirmed)
       => IF confirmed /\ EntriesOf(index, eid) # <<>>
          THEN /\ eid \notin DOMAIN lsEvent'
               /\ EntriesOf(index', eid) = <<>>
               /\ EntriesOf(loadIndex(lsIndex'), eid) = <<>>
               /\ \A e \in AllEids \ {eid} :
                    /\ (e \in DOMAIN lsEvent') = (e \in DOMAIN lsEvent)
                    /\ e \in DOMAIN lsEvent => lsEvent'[e] = lsEvent[e]
                    /\ EntriesOf(index', e) = EntriesOf(index, e)
                    /\ EntriesOf(loadIndex(lsIndex'), e) = EntriesOf(loadIndex(lsIndex), e)
               /\ currentEid = <<eid>>
                    => (currentEid' = <<>> /\ currentState' = JNull /\ lsLastOpen' = <<>>)
          ELSE UNCHANGED appVars]_vars

\* C11: the current event was deleted while another event is stored and
\* listed.
C11_Witness ==
  /\ op = Op("delete", "current")
  /\ lsEvent # <<>>
  /\ index # <<>>

\* The updatedAt of an index entry.
UpdatedAt(meta) == Get(meta, K_updatedAt).v[1]

\* C12: whenever the persisted index is saved, no entry is stamped later
\* than the clock reads, and every entry of an identifier that had an
\* entry before has an updatedAt no smaller than that entry had; so the
\* updatedAt of an identifier never decreases from one save to a later one.
C12_UpdatedAtNeverDecreases ==
  [][lsIndex' # lsIndex
       => \A old \in {loadIndex(lsIndex)}, new \in {loadIndex(lsIndex')} :
            /\ \A j \in 1..Len(new) : UpdatedAt(new[j]) <= now'
            /\ \A i \in 1..Len(old), j \in 1..Len(new) :
                 Get(old[i], K_eid) = Get(new[j], K_eid)
                 => UpdatedAt(new[j]) >= UpdatedAt(old[i])]_vars

\* C12: an autosave has stamped the entry of an event created at an
\* earlier reading of the clock.
C12_Witness ==
  /\ op.name = "autosave"
  /\ \E i \in 1..Len(index) :
       /\ Get(index[i], K_createdAt) = JNum(0)
       /\ Get(index[i], K_updatedAt) = JNum(1)
  /\ index = loadIndex(lsIndex)

\* The text under a key is absent or is not JSON.
Unparseable(item) == item = <<>> \/ ~JSONparse(item[1]).ok

\* C13: no call of the storage module raises; loadIndex returns the empty
\* list and loadEvent returns null when the item is absent or is not JSON
\* (or cannot be read); a save, a deletion or a setLastOpen whose write
\* throws leaves every stored item as it was.
C13_StoreNeverRaises ==
  [][/\ ~sOp'.raised
     /\ (sOp'.name = "loadIndex" /\ (sOp'.fails \/ Unparseable(lsIndex)))
          => sOp'.value = JArr(<<>>)
     /\ (sOp'.name = "loadEvent"
          /\ (sOp'.fails \/ ForeignEid \notin DOMAIN lsEvent
               \/ Unparseable(<<lsEvent[ForeignEid]>>)))
          => sOp'.value = JNull
     /\ (sOp'.name = "loadEventOther"
          /\ (sOp'.fails \/ Eid(1) \notin DOMAIN lsEvent
               \/ Unparseable(<<lsEvent[Eid(1)]>>)))
          => sOp'.value = JNull
     /\ (sOp'.name \in {"saveIndex", "saveEvent", "deleteEvent", "setLastOpen"}
          /\ sOp'.fails)
          => UNCHANGED <<lsEvent, lsIndex, lsLastOpen>>]_vars

\* C13: a write of saveEvent threw while a snapshot was stored under the
\* identifier, and the index held a text that is not JSON.
C13_Witness ==
  /\ sOp.name = "saveEvent"
  /\ sOp.fails
  /\ ForeignEid \in DOMAIN lsEvent
  /\ lsIndex = << <<123>> >>

\* The entries a..b (from 1) of the list are a maximal run of one score.
MaximalRun(l, a, b) ==
  /\ a <= b
  /\ l[a].score # JNull
  /\ \A k \in a..b : l[k].score = l[a].score
  /\ a > 1 => l[a - 1].score # l[a].score
  /\ b < Len(l) => l[b + 1].score # l[a].score

\* C14: after allocatePointsByRank on a list sorted descending by score,
\* every entry of a maximal run of one score at ranks a..b has the sum of
\* the table's points for those ranks (0 for a rank beyond the table)
\* divided by the length of the run; scores 10, 10, 5 with the table
\* 25, 18, 15 give 21.5, 21.5 and 15.
C14_TiesShareTheAverage ==
  (gOut # JNull /\ "sortedScores" \in DOMAIN gState)
  => \A l \in {gState.sortedScores}, t \in {gState.pointsTable} :
       /\ \A a \in 1..Len(l), b \in 1..Len(l) :
            MaximalRun(l, a, b)
            => \A k \in a..b :
                 gOut.points[l[k].id] = Frac(TableSum(t, a - 1, b), b - a + 1)
       /\ ([k \in 1..Len(l) |-> l[k].score] = <<JNum(1000), JNum(1000), JNum(500)>>
            /\ t = <<25, 18, 15>>)
          => [k \in 1..3 |-> gOut.points[l[k].id]]
               = <<[n |-> 43, d |-> 2], [n |-> 43, d |-> 2], [n |-> 15, d |-> 1]>>

\* C14: two entries tied for the first two ranks were given points from a
\* table that has one rank only, ahead of a third entry.
C14_Witness ==
  /\ gOut # JNull
  /\ "sortedScores" \in DOMAIN gState
  /\ Len(gState.sortedScores) = 3
  /\ MaximalRun(gState.sortedScores, 1, 2)
  /\ gState.sortedScores[3].score # JNull
  /\ gState.pointsTable = <<25>>
  /\ gOut.points[gState.sortedScores[1].id] = [n |-> 25, d |-> 2]

\* gOut holds what a render of EventView computed.
Rendered == gOut # JNull /\ "leaderboard" \in DOMAIN gOut

\* C15: in both disciplines the points mapping has an entry for exactly the
\* ids of the roster, and every row without a score has 0 points, whatever
\* the points table in force.
C15_AllIdsPresentUnscoredZero ==
  Rendered
  => \A d \in {gOut.pl, gOut.run} :
       /\ DOMAIN d.points = RosterIds(gState)
       /\ {d.rows[k].id : k \in 1..Len(d.rows)} = RosterIds(gState)
       /\ \A k \in 1..Len(d.rows) :
            d.rows[k].score = JNull => d.points[d.rows[k].id] = Frac(0, 1)

\* C15: with the F1 table in force, a roster of two has one athlete with a
\* strength score and one without: the second rank carries 18 points in
\* the table and the unscored athlete has 0.
C15_Witness ==
  /\ Rendered
  /\ gState.pointsPreset = "F1"
  /\ Len(gOut.pl.rows) = 2
  /\ gOut.pl.rows[1].score # JNull
  /\ gOut.pl.rows[2].score = JNull
  /\ gOut.pl.points[gOut.pl.rows[2].id] = Frac(0, 1)
  /\ gOut.pl.points[gOut.pl.rows[1].id] = Frac(25, 1)

\* The orders of a roster of n athletes: the permutations of 1..n.
RosterOrders(n) == {p \in [1..n -> 1..n] : \A i, j \in 1..n : p[i] = p[j] => i = j}

\* The State with its roster in the order p.
Reordered(state, p) == [state EXCEPT !.athletes = [k \in 1..Len(@) |-> @[p[k]]]]

\* C16: for every order of the roster, sorting and allocating gives the
\* id-to-points mapping the render gave, in the strength event and in the
\* 5k event.
C16_PointsIgnoreRosterOrder ==
  Rendered
  => \A p \in RosterOrders(Len(gState.athletes)) :
       \A s \in {Reordered(gState, p)} :
         /\ plScores(s).points = gOut.pl.points
         /\ runScores(s).points = gOut.run.points

\* C16: the first athlete of a roster of two has the lower strength score
\* and the two are tied in the 5k event.
C16_Witness ==
  /\ Rendered
  /\ Len(gState.athletes) = 2
  /\ gOut.pl.rows[1].id = gState.athletes[2].id
  /\ gOut.pl.rows[2].score # JNull
  /\ gOut.pl.rows[1].score # gOut.pl.rows[2].score
  /\ gOut.run.rows[1].score # JNull
  /\ gOut.run.rows[1].score = gOut.run.rows[2].score

\* The points the mapping of a discipline has for an id, 0 when it has
\* none.
DisciplinePoints(d, id) == IF id \in DOMAIN d.points THEN d.points[id] ELSE [n |-> 0, d |-> 1]

\* C17: the leaderboard has as many rows as the roster has athletes, every
\* athlete of the roster has exactly one row, and the total of a row is
\* the athlete's strength points plus the athlete's 5k points.
C17_LeaderboardRowPerAthlete ==
  Rendered
  => \A board \in {gOut.leaderboard} :
       /\ Len(board) = Len(gState.athletes)
       /\ \A k \in 1..Len(gState.athletes) :
            Cardinality({r \in 1..Len(board) : board[r].id = gState.athletes[k].id}) = 1
       /\ \A r \in 1..Len(board) :
            /\ board[r].breakdown.pl = DisciplinePoints(gOut.pl, board[r].id)
            /\ board[r].breakdown.run = DisciplinePoints(gOut.run, board[r].id)
            /\ board[r].totalPoints.n * board[r].breakdown.pl.d * board[r].breakdown.run.d
                 = board[r].totalPoints.d
                     * (board[r].breakdown.pl.n * board[r].breakdown.run.d
                          + board[r].breakdown.run.n * board[r].breakdown.pl.d)

\* C17: a roster of two is on the leaderboard, and one row has points in
\* both disciplines, 25 for strength and 21.5 for a shared first place in
\* the 5k event.
C17_Witness ==
  /\ Rendered
  /\ Len(gState.athletes) = 2
  /\ Len(gOut.leaderboard) = 2
  /\ \E r \in 1..2 :
       /\ gOut.leaderboard[r].breakdown.pl = [n |-> 25, d |-> 1]
       /\ gOut.leaderboard[r].breakdown.run = [n |-> 43, d |-> 2]
       /\ gOut.leaderboard[r].totalPoints = [n |-> 93, d |-> 2]

\* The place (from 1) of the athlete with the id in the roster.
RosterPlace(state, id) == Min({k \in 1..Len(state.athletes) : state.athletes[k].id = id})

\* C18: the rows of the leaderboard are in descending order of total, and
\* rows of equal total are in the order their athletes have in the roster.
C18_LeaderboardOrder ==
  Rendered
  => \A board \in {gOut.leaderboard} :
       \A r \in 1..Len(board), q \in 1..Len(board) :
         r < q
         => /\ FracSub(board[r].totalPoints, board[q].totalPoints) >= 0
            /\ board[r].totalPoints = board[q].totalPoints
                 => RosterPlace(gState, board[r].id) < RosterPlace(gState, board[q].id)

\* The number is present and greater than 0.
Positive(x) == x # JNull /\ x.v[1] > 0

\* C19: dotsPoints returns a score only for a total above 0, a bodyweight
\* above 0 and the sex M or F; for every other input it returns null.
C19_DotsOnlyForValidInput ==
  (gOut # JNull /\ "score" \in DOMAIN gOut /\ gOut.score # JNull)
  => /\ Positive(gState.totalKg)
     /\ Positive(gState.bodyweightKg)
     /\ gState.sex \in {"M", "F"}

\* C20: an athlete of the roster with squat, bench or deadlift missing has
\* no strength score and 0 strength points.
C20_MissingLiftDoesNotScore ==
  Rendered
  => \A k \in 1..Len(gState.athletes) :
       \A a \in {gState.athletes[k]} :
         (a.squat = JNull \/ a.bench = JNull \/ a.deadlift = JNull)
         => /\ \A r \in 1..Len(gOut.pl.rows) :
                 gOut.pl.rows[r].id = a.id => gOut.pl.rows[r].score = JNull
            /\ gOut.pl.points[a.id] = Frac(0, 1)

\* The parts of the text between its colons, trimmed.
TimeParts(time) ==
  LET Trimmed(parts) == [i \in 1..Len(parts) |-> Trim(parts[i])]
  IN Trimmed(SplitColon(time))

\* The typed time is malformed: it is not blank and it has more than
\* three parts, an empty part or a part that is no number.
Malformed(time) ==
  /\ Trim(time) # <<>>
  /\ \/ Len(TimeParts(time)) > 3
     \/ \E i \in 1..Len(TimeParts(time)) :
          TimeParts(time)[i] = <<>> \/ NumberIsNaN(TimeParts(time)[i])

\* C21: the value parseTimeToSeconds returns for a malformed text differs
\* from the value it returns for the empty text.
C21_EmptyDiffersFromInvalid ==
  (gOut # JNull /\ "seconds" \in DOMAIN gOut /\ Malformed(gState.time))
  => gOut.seconds # parseTimeToSeconds(<<>>)

\* The place (from 1) of the row of the id in the rows of a discipline.
RowPlace(d, id) == Min({r \in 1..Len(d.rows) : d.rows[r].id = id})

\* The athlete's typed time parses to a number of seconds above 0.
HasRunTime(a) == Positive(parseTimeToSeconds(a.runTime))

\* C22: in the 5k event an athlete with a smaller positive time is ranked
\* above an athlete with a larger one, a time of 780 s has the index 1, and
\* an athlete whose time is empty, invalid, zero or negative has no score,
\* is ranked after every scored athlete and has 0 points.
C22_FasterRanksHigher ==
  Rendered
  => \A i \in 1..Len(gState.athletes) :
       \A a \in {gState.athletes[i]} :
         /\ IF HasRunTime(a)
            THEN /\ gOut.run.rows[RowPlace(gOut.run, a.id)].score # JNull
                 /\ parseTimeToSeconds(a.runTime) = JNum(780)
                      => gOut.run.rows[RowPlace(gOut.run, a.id)].score = JNum(100)
            ELSE /\ gOut.run.rows[RowPlace(gOut.run, a.id)].score = JNull
                 /\ gOut.run.points[a.id] = Frac(0, 1)
         /\ \A j \in 1..Len(gState.athletes) :
              \A b \in {gState.athletes[j]} :
                /\ (HasRunTime(a) /\ HasRunTime(b)
                     /\ parseTimeToSeconds(a.runTime).v[1] < parseTimeToSeconds(b.runTime).v[1])
                   => RowPlace(gOut.run, a.id) < RowPlace(gOut.run, b.id)
                /\ (HasRunTime(a) /\ ~HasRunTime(b))
                   => RowPlace(gOut.run, a.id) < RowPlace(gOut.run, b.id)

\* C22: the first athlete of the roster ran 20:00 and the second 13:00,
\* which is 780 s: the second is ranked first with the index 1.
C22_Witness ==
  /\ Rendered
  /\ Len(gState.athletes) = 2
  /\ gState.athletes[1].runTime = RunTimeText
  /\ gState.athletes[2].runTime = <<49, 51, 58, 48, 48>>
  /\ gOut.run.rows[1].id = gState.athletes[2].id
  /\ gOut.run.rows[1].score = JNum(100)
  /\ gOut.run.points[gState.athletes[1].id] = Frac(18, 1)

\* The last-open pointer is set and a snapshot loads for its identifier.
Restorable ==
  /\ lsLastOpen # <<>>
  /\ lsLastOpen[1] # <<>>
  /\ Truthy(loadEvent(lsEvent, lsLastOpen[1]))

\* The step is a boot whose fragment carries nothing to import.
BootWithoutImport == op'.name = "boot" /\ op'.kind \in {"nolink", "noresult"}

\* C23: a boot without an importable link makes the last-open event
\* current, with its loaded snapshot, exactly when the pointer is set and
\* its snapshot loads; otherwise no event is current, the manager is shown
\* and no stored item changes.
C23_BootRestoresLastOpen ==
  [][BootWithoutImport
       => IF Restorable
          THEN /\ mode' = "event"
               /\ currentEid' = lsLastOpen
               /\ currentState' = loadEvent(lsEvent, lsLastOpen[1])
          ELSE /\ mode' = "manager"
               /\ currentEid' = <<>>
               /\ currentState' = JNull
               /\ UNCHANGED <<lsEvent, lsIndex, lsLastOpen>>]_vars

\* The ids of the roster in its order.
IdsInOrder(state) == [k \in 1..Len(state.athletes) |-> state.athletes[k].id]

OpenedWithoutEdit ==
  \/ op.name = "open"
  \/ op.name = "boot" /\ op.kind \in {"nolink", "noresult"}

\* C25: the autosave that follows the opening of an event, with no edit in
\* between, changes neither a stored snapshot nor the persisted index.
C25_OpeningWritesNothing ==
  [][(OpenedWithoutEdit /\ op'.name = "autosave")
       => (lsEvent' = lsEvent /\ lsIndex' = lsIndex)]_vars

\* The identifiers a step of deleteEvent removes from the index.
Unlisted == IF op'.name = "delete" THEN Listed \ Listed' ELSE {}

\* The identifiers a step of the autosave callback writes under.
Autosaved == IF op'.name = "autosave" THEN {tm.eid : tm \in timers \ timers'} ELSE {}

\* C26: a deleted event is never resurrected by a pending autosave.  Every
\* pending timeout belongs to the current event; deleting an event leaves
\* it neither current nor with a pending timeout, also when an edit of it
\* was waiting for its write; and the callback that runs next after a
\* deletion writes under an identifier that is still listed or stored,
\* which the deleted one is not.
C26_DeletedNotResurrected ==
  [][/\ \A tm \in timers' : currentEid' = <<tm.eid>>
     /\ \A eid \in Unlisted :
          /\ currentEid' # <<eid>>
          /\ \A tm \in timers' : tm.eid # eid
          /\ Falsy(loadEvent(lsEvent', eid))
     /\ op.name = "delete" =>
          \A eid \in Autosaved : eid \in Listed \/ Truthy(loadEvent(lsEvent, eid))]_vars

\* The edit of the current event waits for its write, and the manager
\* shows the event with its "Delete" button.
C26_Witness ==
  /\ mode = "manager"
  /\ pendingEdit # <<>>
  /\ \E tm \in timers :
       /\ currentEid = <<tm.eid>>
       /\ tm.eid \in Listed
       /\ pendingEdit[1].eid = tm.eid

\* The latest operation is one that completed: create, import, autosave
\* or delete.
Completed ==
  \/ op.name \in {"create", "autosave", "delete"}
  \/ op.name = "boot" /\ op.kind \in {"adopt", "fork", "same"}

\* What an index entry says.
EntryFields(meta) ==
  <<Get(meta, K_eid), Get(meta, K_title), Get(meta, K_createdAt), Get(meta, K_updatedAt)>>

\* The index in memory says what the persisted index says.  An app that
\* has been unmounted has no index in memory.
IndexPersisted ==
  LET list == loadIndex(lsIndex)
  IN mode # "crashed" =>
       /\ Len(list) = Len(index)
       /\ \A i \in 1..Len(index) : EntryFields(list[i]) = EntryFields(index[i])

\* Every entry of the list whose identifier has a stored snapshot has the
\* title of that snapshot.
TitlesAgree(list) ==
  \A i \in 1..Len(list) :
    LET eid == Get(list[i], K_eid)
    IN (eid.t = "str" /\ eid.v \in DOMAIN lsEvent)
         => Get(list[i], K_title) = Get(loadEvent(lsEvent, eid.v), K_title)

\* C27: after every completed operation (create, import, autosave,
\* delete) every index entry whose identifier has a stored snapshot has
\* that snapshot's title, in memory and in the persisted index, and the
\* index in memory equals the persisted index.
C27_IndexAgreesWithStore ==
  Completed => (TitlesAgree(index) /\ TitlesAgree(loadIndex(lsIndex)) /\ IndexPersisted)

\* An autosave has written an edited title: the entry and the snapshot of
\* the event carry it.
C27_Witness ==
  /\ op.name = "autosave"
  /\ mode # "crashed"
  /\ \E i \in 1..Len(index) :
       /\ Get(index[i], K_eid).v \in DOMAIN lsEvent
       /\ Get(index[i], K_title) = JStr(<<66>>)
       /\ Len(index) > 1

\* C28: whenever an event is current the persisted last-open pointer is
\* its identifier, and the pointer never names a deleted event: a step of
\* deleteEvent leaves the pointer off the identifier it removes, and the
\* event the pointer names has a stored snapshot.
C28_LastOpenFollowsCurrent ==
  [][/\ currentEid' # <<>> => lsLastOpen' = <<currentEid'[1]>>
     /\ \A eid \in Unlisted : lsLastOpen' # <<eid>>
     /\ lsLastOpen' # <<>> => lsLastOpen'[1] \in DOMAIN lsEvent']_vars

\* The current event, which the pointer named, has been deleted: no
\* event is current and the pointer is removed.
C28_Witness ==
  /\ op = Op("delete", "current")
  /\ currentEid = <<>>
  /\ lsLastOpen = <<>>
  /\ lsEvent # <<>>

\* The sum of the points the first n athletes of the roster have in the
\* discipline d.
RECURSIVE PointsAwarded(_, _, _)
PointsAwarded(d, athletes, n) ==
  IF n = 0 THEN Frac(0, 1)
  ELSE FracAdd(PointsAwarded(d, athletes, n - 1), DisciplinePoints(d, athletes[n].id))

\* The number of athletes with a score in the discipline d.
ScoredCount(d) == Cardinality({k \in 1..Len(d.rows) : d.rows[k].score # JNull})

\* C29: points are conserved.  In the strength event and in the 5k event
\* the points of all athletes of the roster add up to the sum of the
\* points table's values at ranks 1..k, k being the number of athletes
\* with a score, a rank beyond the table counting as 0.
C29_PointsConserved ==
  Rendered
  => \A d \in {gOut.pl, gOut.run} :
       PointsAwarded(d, gState.athletes, Len(gState.athletes))
         = Frac(TableSum(pointsTable(gState), 0, ScoredCount(d)), 1)

\* Two athletes tie in the strength event under the F1 table and share
\* 25 + 18 points; in the 5k event one of them has a score and the other
\* has none.
C29_Witness ==
  /\ Rendered
  /\ gState.pointsPreset = "F1"
  /\ Len(gState.athletes) = 2
  /\ ScoredCount(gOut.pl) = 2
  /\ gOut.pl.rows[1].score = gOut.pl.rows[2].score
  /\ gOut.pl.points[gOut.pl.rows[1].id] = Frac(43, 2)
  /\ ScoredCount(gOut.run) = 1
  /\ PointsAwarded(gOut.run, gState.athletes, 2) = Frac(25, 1)

\* The values of the table never go up and none is negative.
NonIncreasingNonNegative(t) ==
  /\ \A k \in 1..Len(t) : t[k] >= 0
  /\ \A k \in 1..(Len(t) - 1) : t[k] >= t[k + 1]

\* The entry a has a score and b has none, or a's score is strictly
\* higher than b's.
Outscores(a, b) ==
  /\ a.score # JNull
  /\ b.score = JNull \/ a.score.v[1] > b.score.v[1]

\* C30: with a points table whose values are non-increasing and
\* non-negative the allocation is monotone: an entry with a strictly
\* higher score has no fewer points than one with a lower score, and an
\* entry with a score has no fewer points than one without.
C30_AllocationMonotone ==
  (gOut # JNull /\ "sortedScores" \in DOMAIN gState
     /\ NonIncreasingNonNegative(gState.pointsTable))
  => \A a \in 1..Len(gState.sortedScores), b \in 1..Len(gState.sortedScores) :
       Outscores(gState.sortedScores[a], gState.sortedScores[b])
       => FracSub(gOut.points[gState.sortedScores[a].id],
                  gOut.points[gState.sortedScores[b].id]) >= 0

\* Under the F1 table two entries tie ahead of one without a score: the
\* tied ones have 21.5 points each and the third has 0.
C30_Witness ==
  /\ gOut # JNull
  /\ "sortedScores" \in DOMAIN gState
  /\ gState.pointsTable = F1_POINTS
  /\ Len(gState.sortedScores) = 3
  /\ Outscores(gState.sortedScores[2], gState.sortedScores[3])
  /\ gState.sortedScores[1].score = gState.sortedScores[2].score
  /\ gState.sortedScores[3].score = JNull
  /\ gOut.points[gState.sortedScores[2].id] = Frac(43, 2)
  /\ gOut.points[gState.sortedScores[3].id] = Frac(0, 1)

\* C10: decoding the key of a payload gives the payload.
C10_CodecRoundTrip == cPhase = "decoded" => cOut = cPayload

\* C10: a payload with a character outside ASCII in its title or in an
\* athlete's name has been encoded and decoded.
C10_Witness ==
  /\ cPhase = "decoded"
  /\ \E t \in CodecTexts :
       /\ \E i \in 1..Len(t) : t[i] > 127
       /\ \/ Get(Get(cPayload, K_state), K_title) = JStr(t)
          \/ Get(Get(cPayload, K_state), K_athletes) = JArr(<<NamedAthlete(t)>>)
====
